---- MODULE Spec2Model ----
(***************************************************************************)
(* Questionnaire Coverage Reconciler of IA_Agent                           *)
(* (analyze_questionnaire_impact and its helpers in src/nodes.py).         *)
(*                                                                         *)
(* A workflow snapshot (GraphState) is handed to the Reconciler, which     *)
(* scans the questionnaire against the assessment variables (the raw       *)
(* indicators), adds placeholders, asks the text-generation service for    *)
(* remediation questions and returns the snapshot.  One call is one        *)
(* action; the service's answer and the uuid4 draws are its inputs.        *)
(*                                                                         *)
(* Representation.  Python strings that the code inspects character by     *)
(* character (var_name, variable_name, formula tokens) are sequences of    *)
(* one-character strings.  An optional value is None == <<>> or            *)
(* Some(x) == <<x>>.  A calculation formula is the sequence of its         *)
(* identifier tokens (maximal runs of [A-Za-z0-9_]).                       *)
(***************************************************************************)
EXTENDS Integers, Sequences, FiniteSets, TLC

\* ---------------------------------------------------------------- bounds
MaxSections == 2
MaxAdded == 2

\* ------------------------------------------------------ program constants
max_retries == 3
placeholder_priority == 5

\* ------------------------------------------------------- generic helpers
None == <<>>
Some(x) == <<x>>

Range(s) == {s[i] : i \in DOMAIN s}

SeqsUpTo(S, n) == UNION {[1..k -> S] : k \in 0..n}

EmptyMap == [k \in {} |-> None]

\* str.endswith
EndsWith(s, t) == Len(s) >= Len(t) /\ SubSeq(s, Len(s) - Len(t) + 1, Len(s)) = t

\* dict.update: shallow key overwrite
MapUpdate(m, u) ==
  [k \in (DOMAIN m) \cup (DOMAIN u) |-> IF k \in DOMAIN u THEN u[k] ELSE m[k]]

\* ------------------------------------------------------- string helpers
IsLowerChar(c) == c \in {"a", "b", "c", "g", "q", "v", "z"}
IsUpperChar(c) == c \in {"A", "B", "C", "G", "Q", "V", "Z"}
IsCased(c) == IsLowerChar(c) \/ IsUpperChar(c)

UpperChar(c) ==
  CASE c = "a" -> "A" [] c = "b" -> "B" [] c = "c" -> "C" [] c = "g" -> "G"
    [] c = "q" -> "Q" [] c = "v" -> "V" [] c = "z" -> "Z" [] OTHER -> c

LowerChar(c) ==
  CASE c = "A" -> "a" [] c = "B" -> "b" [] c = "C" -> "c" [] c = "G" -> "g"
    [] c = "Q" -> "q" [] c = "V" -> "v" [] c = "Z" -> "z" [] OTHER -> c

\* str.replace for a single character
ReplaceChar(s, from, to) ==
  [i \in DOMAIN s |-> IF s[i] = from THEN to ELSE s[i]]

\* str.replace(c, '')
DeleteChar(s, c) ==
  LET Keep(x) == x # c IN SelectSeq(s, Keep)

\* str.lower
LowerStr(s) == [i \in DOMAIN s |-> LowerChar(s[i])]

\* str.title: a cased character is upper-cased when it follows an uncased
\* character (or starts the string), lower-cased otherwise
TitleStr(s) ==
  [i \in DOMAIN s |->
     IF IsCased(s[i])
       THEN IF i = 1 \/ ~IsCased(s[i - 1]) THEN UpperChar(s[i]) ELSE LowerChar(s[i])
       ELSE s[i]]

\* missing_av_name.replace('_', ' ').title()
PlaceholderName(v) == TitleStr(ReplaceChar(v, "_", " "))

\* variable_name.lower().replace(' ', '_').replace('-', '_').replace('.', '')
NormalizeVariableName(s) ==
  DeleteChar(ReplaceChar(ReplaceChar(LowerStr(s), " ", "_"), "-", "_"), ".")

\* a token found by re.findall(r'\b(q_[a-zA-Z0-9_]+)\b', formula): an
\* identifier token that starts with q_ and has at least one more character
IsQuestionVarToken(t) == Len(t) >= 3 /\ t[1] = "q" /\ t[2] = "_"

formula_question_vars(tokens) ==
  LET Hit(t) == IsQuestionVarToken(t) IN SelectSeq(tokens, Hit)


\* ------------------------------------------------------ bounded inputs
VarA == <<"a">>
VarGhost == <<"g", "_", "v">>
QA == <<"q", "_", "a">>
QB == <<"q", "_", "b">>
QC == <<"q", "_", "c">>
QZ == <<"q", "_", "z">>
QBare == <<"q", "_">>
XQA == <<"z", "q", "_", "a">>
RawQC == <<"Q", "-", "C", ".", " ", "z">>
\* a null, missing or empty variable_name (all falsy in the code)
NoName == <<>>

\* a value that may be a list, null, or absent from its dict
ListOf(v) == [k |-> "list", v |-> v]
NullList == [k |-> "null", v |-> <<>>]
MissingList == [k |-> "missing", v |-> <<>>]

\* section.get(key, []) / question.get(key, [])
GetOrEmpty(l) == IF l.k = "list" THEN l.v ELSE <<>>

\* VariableSchema (src/schemas.py), the fields the Reconciler reads or sets
Variable(v) ==
  [var_name |-> v, name |-> v, priority |-> 1, description |-> "defined",
   formula |-> "null", type |-> "float"]

\* Question (src/schemas.py)
Question(id, name, avl, conditional) ==
  [id |-> id, variable_name |-> name, assessment_variables |-> avl, formula |-> "expr",
   triggering_criteria |-> IF conditional THEN "expr" ELSE "null",
   is_conditional |-> conditional]

\* Section (src/schemas.py)
Section(order, mandatory, core, cond) ==
  [title |-> "Section", order |-> order, is_mandatory |-> mandatory,
   triggering_criteria |-> IF mandatory THEN "null" ELSE "expr",
   core_questions |-> core, conditional_questions |-> cond]

Q1 == Question(<<"1">>, QA, ListOf(<<VarA>>), FALSE)
Q2 == Question(<<"2">>, QB, ListOf(<<VarGhost>>), TRUE)
Q3 == Question(<<"3">>, QB, NullList, TRUE)
Q4 == Question(<<"4">>, NoName, MissingList, FALSE)

\* the shapes of a section: is_mandatory, core_questions, conditional_questions
SectionShapes ==
  {<<TRUE, ListOf(<<Q1>>), <<>>>>,
   <<FALSE, ListOf(<<Q1>>), <<Q2>>>>,
   <<TRUE, MissingList, <<Q2>>>>,
   <<FALSE, ListOf(<<Q4>>), <<>>>>,
   <<TRUE, ListOf(<<>>), <<Q3>>>>}

\* questionnaires keep their sections sorted by order
InitSectionLists ==
  UNION {{[i \in 1..n |-> Section(i, sh[i][1], sh[i][2], sh[i][3])] :
            sh \in [1..n -> SectionShapes]} : n \in 0..MaxSections}

\* calculation formulas as token sequences; None is a null formula
FormulaResolved == Some(<<QA, QBare, XQA>>)
FormulaDangling == Some(<<QA, QZ>>)

InitCalcMaps ==
  {None,
   Some([k \in {VarA} |-> FormulaResolved]),
   Some([k \in {VarA} |-> FormulaDangling]),
   Some([k \in {VarA} |-> None]),
   Some([k \in {VarA, VarGhost} |-> FormulaDangling])}

\* Questionnaire dict: sections and assessment_variable_calculation
InitQuestionnaires ==
  {None} \cup
  {Some([sections |-> s, assessment_variable_calculation |-> c]) :
     s \in InitSectionLists, c \in InitCalcMaps}

InitVariableLists ==
  {None, Some(<<>>), Some(<<Variable(VarA)>>),
   Some(<<Variable(VarA), Variable(VarGhost)>>)}

\* the error field: null, or the concatenation of its messages
InitErrors == {None, Some(<<"prior">>)}

\* GraphState (src/schemas.py)
InitSnapshots ==
  [error : InitErrors, project_id : {None}, assessment_variables : InitVariableLists,
   questionnaire : InitQuestionnaires]

\* the messages of an error field
ErrorMessages(err) == IF err = None THEN <<>> ELSE err[1]

\* (state.get("error") or "") + message
ErrorAppend(err, msg) == Some((IF err = None THEN <<>> ELSE err[1]) \o <<msg>>)

\* ------------------------------------------------------------- Scanning
\* lines 913-925: the lists and maps the node works on
Avs(s) == IF s.assessment_variables = None THEN <<>> ELSE s.assessment_variables[1]

Sections(s) == IF s.questionnaire = None THEN <<>> ELSE s.questionnaire[1].sections

CalcMap(s) ==
  IF s.questionnaire = None THEN EmptyMap
  ELSE IF s.questionnaire[1].assessment_variable_calculation = None THEN EmptyMap
  ELSE s.questionnaire[1].assessment_variable_calculation[1]

\* lines 910-925: state["assessment_variables"] and the calculation map are
\* made a list and a dict in place; the error field is kept
Entered(s) ==
  [error |-> s.error,
   project_id |-> s.project_id,
   assessment_variables |-> Some(Avs(s)),
   questionnaire |->
     IF s.questionnaire = None THEN None
     ELSE Some([s.questionnaire[1] EXCEPT
                  !.assessment_variable_calculation = Some(CalcMap(s))])]

\* the questions in the order of the loops of lines 944-946
SectionQuestions(sec) == GetOrEmpty(sec.core_questions) \o sec.conditional_questions

RECURSIVE AllQuestions(_)
AllQuestions(secs) ==
  IF secs = <<>> THEN <<>>
  ELSE SectionQuestions(Head(secs)) \o AllQuestions(Tail(secs))

\* line 948: iterating a null assessment_variables list raises TypeError
QuestionLoopRaises(secs) ==
  \E q \in Range(AllQuestions(secs)) : q.assessment_variables.k = "null"

all_question_vars(secs) == {q.variable_name : q \in Range(AllQuestions(secs))}

explicitly_covered_avs(secs) ==
  UNION {Range(GetOrEmpty(q.assessment_variables)) : q \in Range(AllQuestions(secs))}

VarNames(avs) == {avs[i].var_name : i \in DOMAIN avs}

referenced_but_missing_avs(secs, avs) == explicitly_covered_avs(secs) \ VarNames(avs)

uncovered_assessment_vars(secs, avs) ==
  LET Uncovered(av) == av.var_name \notin explicitly_covered_avs(secs)
  IN SelectSeq(avs, Uncovered)

placeholder_av(v) ==
  [var_name |-> v, name |-> PlaceholderName(v), priority |-> placeholder_priority,
   description |-> "placeholder", formula |-> "null", type |-> "text"]

\* the orders in which a Python set may be iterated
Orderings(S) ==
  {f \in [1..Cardinality(S) -> S] : \A i, j \in DOMAIN f : f[i] = f[j] => i = j}

\* lines 964-983: one placeholder per missing name, appended in iteration order
RECURSIVE AddPlaceholders(_, _)
AddPlaceholders(avs, order) ==
  IF order = <<>> THEN avs
  ELSE AddPlaceholders(
         IF Head(order) \notin VarNames(avs)
           THEN Append(avs, placeholder_av(Head(order))) ELSE avs,
         Tail(order))

\* lines 996-1004 for one entry of the calculation map
FormulaRaises(cm, known, r) == r \in known /\ cm[r] = None

\* variant without the existence test of line 996
IsProblematic_AnyKey(cm, known, qvars, r) ==
  /\ cm[r] # None
  /\ \E t \in Range(formula_question_vars(cm[r][1])) : t \notin qvars

IsProblematic(cm, known, qvars, r) ==
  /\ r \in known
  /\ cm[r] # None
  /\ \E t \in Range(formula_question_vars(cm[r][1])) : t \notin qvars

\* lines 987-1004: the list of flagged keys, in the dict's iteration order
RECURSIVE problemmatic_calculation_vars(_, _, _, _)
problemmatic_calculation_vars(cm, known, qvars, keys) ==
  IF keys = <<>> THEN <<>>
  ELSE (IF IsProblematic(cm, known, qvars, Head(keys)) THEN <<Head(keys)>> ELSE <<>>)
       \o problemmatic_calculation_vars(cm, known, qvars, Tail(keys))

KeyOrder(cm) == CHOOSE f \in Orderings(DOMAIN cm) : TRUE

CalcLoopRaises(cm, known) == \E r \in DOMAIN cm : FormulaRaises(cm, known, r)

\* lines 1009-1013
vars_to_address(uncovered, problematic, missing) ==
  {uncovered[i].var_name : i \in DOMAIN uncovered} \cup Range(problematic) \cup missing


\* ------------------------------------------- expression refinement helper
FailureMarker == "// LLM FAILED TO RESPOND"

\* the outcome of each attempt of the refinement request: "none" is an
\* exception or a null response, anything else the returned expression
RefineAnswers ==
  {[i \in 1..max_retries |-> "none"],
   [i \in 1..max_retries |-> IF i = max_retries THEN "generated" ELSE "none"]}

\* line 73: a usable expression is returned as it is
IsUsableExpression(e) == e \notin {"null", "", "return true;", FailureMarker}

\* lines 89-104: an attempt yields no expression when the request raises
\* ("raise") or the response holds none ("none")
IsNoExpression(o) == o \in {"none", "raise"}

\* variant in which an exception ends the loop
RECURSIVE RetryLoop_StopsOnRaise(_, _)
RetryLoop_StopsOnRaise(answers, retries) ==
  IF retries >= max_retries THEN FailureMarker
  ELSE IF answers[retries + 1] = "raise" THEN FailureMarker
  ELSE IF answers[retries + 1] # "none" THEN answers[retries + 1]
  ELSE RetryLoop_StopsOnRaise(answers, retries + 1)

\* lines 76-115: the value the retry loop returns
RECURSIVE RetryLoop(_, _)
RetryLoop(answers, retries) ==
  IF retries >= max_retries THEN FailureMarker
  ELSE IF ~IsNoExpression(answers[retries + 1]) THEN answers[retries + 1]
  ELSE RetryLoop(answers, retries + 1)

\* lines 76-111: the number of requests the retry loop sends
RECURSIVE RetryCalls(_, _)
RetryCalls(answers, retries) ==
  IF retries >= max_retries THEN 0
  ELSE IF ~IsNoExpression(answers[retries + 1]) THEN 1
  ELSE 1 + RetryCalls(answers, retries + 1)

refine_js_expression(expression_type, current_expression, is_mandatory_flag, answers) ==
  IF expression_type = "triggering_criteria" /\ is_mandatory_flag THEN ""
  ELSE IF IsUsableExpression(current_expression) THEN current_expression
  ELSE RetryLoop(answers, 0)

\* ------------------------------------------------- question post-processing
\* the uuid4 draws of one call of the helper
Hex4 == {<<"0", "0", "0", "0">>, <<"f", "f", "f", "f">>}
Hex8 == {<<"0", "0", "0", "0", "0", "0", "0", "0">>}
Uuid4 == {<<"u", "0">>}

Draws ==
  [uuid : Uuid4, hex4 : Hex4, hex8 : Hex8, formula : RefineAnswers,
   criteria : RefineAnswers]

\* variant in which a colliding name is kept as it is
UniqueVariableName_NoSuffix(q, all_existing_q_vars, d) ==
  IF q.variable_name = NoName THEN <<"q", "_">> \o d.hex8
  ELSE NormalizeVariableName(q.variable_name)

\* lines 176-185: the variable_name the question ends up with
UniqueVariableName(q, all_existing_q_vars, d) ==
  LET name == IF q.variable_name = NoName THEN <<"q", "_">> \o d.hex8
              ELSE NormalizeVariableName(q.variable_name)
  IN IF name \in all_existing_q_vars /\ name # q.original_variable_name_before_update
       THEN name \o <<"_">> \o d.hex4
       ELSE name

\* line 184: the suffix appended, if any, makes a name no question has yet
FreshSuffix(q, all_existing_q_vars, d) ==
  LET name == IF q.variable_name = NoName THEN <<"q", "_">> \o d.hex8
              ELSE NormalizeVariableName(q.variable_name)
      unique == UniqueVariableName(q, all_existing_q_vars, d)
  IN unique # name => unique \notin all_existing_q_vars

\* lines 168-172: the id takes the project prefix
PrefixedId(base_id, project_id) ==
  IF project_id # None /\ project_id[1] # <<>>
    THEN project_id[1] \o <<"_">> \o base_id ELSE base_id

\* the question dict after the helper, the grown name set and the
\* diagnostics appended to state["error"]
process_question_properties(q, is_core_question, all_existing_q_vars, d, project_id) ==
  LET name == UniqueVariableName(q, all_existing_q_vars, d)
      refined_formula == refine_js_expression("formula", q.formula, TRUE, d.formula)
      refined_criteria ==
        refine_js_expression("triggering_criteria", q.triggering_criteria, FALSE, d.criteria)
  IN [question |->
        [id |-> PrefixedId(IF q.id # NoName THEN q.id ELSE d.uuid, project_id),
         variable_name |-> name,
         assessment_variables |->
           IF q.assessment_variables.k = "list" THEN q.assessment_variables ELSE ListOf(<<>>),
         formula |-> refined_formula,
         triggering_criteria |-> IF is_core_question THEN "null" ELSE refined_criteria,
         is_conditional |-> IF is_core_question THEN FALSE ELSE refined_criteria # ""],
      all_existing_q_vars |-> all_existing_q_vars \cup {name},
      errors |->
        (IF refined_formula = FailureMarker THEN <<"ERROR: Formula problematic">> ELSE <<>>)
        \o (IF ~is_core_question /\ refined_criteria = FailureMarker
              THEN <<"ERROR: problematic triggering_criteria">> ELSE <<>>)]

\* ------------------------------------------------- remediation responses
\* an element of added_questions; one that is not a dict makes the helper raise
Item(id, name, marker, formula, avl) ==
  [wellformed |-> TRUE, id |-> id, variable_name |-> name,
   original_variable_name_before_update |-> marker, formula |-> formula,
   triggering_criteria |-> "null", assessment_variables |-> avl]

ItemNew == Item(<<"n">>, RawQC, NoName, "return true;", ListOf(<<VarA>>))
ItemDup == Item(<<"d">>, QA, NoName, "expr", NullList)
ItemBad == [Item(NoName, NoName, NoName, "null", MissingList) EXCEPT !.wellformed = FALSE]

Items == {ItemNew, ItemDup, ItemBad}

\* updated_assessment_variable_calculation: a dict, or something else
UpdatedCalcMaps ==
  {[k |-> "notdict", v |-> EmptyMap],
   [k |-> "dict", v |-> [r \in {VarA} |-> Some(<<QA>>)]]}

NoResponse ==
  [kind |-> "none", added_questions |-> <<>>,
   updated_assessment_variable_calculation |-> [k |-> "dict", v |-> EmptyMap]]

\* what remediation_chain.invoke does: raise, return something that is not a
\* dict (null, or a bare list of questions), or return a dict
NotDictResponses ==
  {[NoResponse EXCEPT !.kind = "notdict"],
   [NoResponse EXCEPT !.kind = "notdict", !.added_questions = <<ItemNew>>]}

\* the added_questions lists: nothing behind an element that is not a dict
\* is ever read, so such an element comes last
AddedQuestionLists ==
  {l \in SeqsUpTo(Items, MaxAdded) : \A i \in 1..(Len(l) - 1) : l[i].wellformed}

Responses ==
  {[NoResponse EXCEPT !.kind = "raise"]} \cup NotDictResponses \cup
  [kind : {"dict"}, added_questions : AddedQuestionLists,
   updated_assessment_variable_calculation : UpdatedCalcMaps]

\* variant that takes whatever was returned for a dict
ResponseIsDict_Any(resp) == resp.kind # "raise"

\* line 1064: isinstance(remediation_response_raw, dict)
ResponseIsDict(resp) == resp.kind = "dict"

Returned == {r \in Responses : r.kind # "raise"}

\* ------------------------------------------------------ target selection
MaxOrder(secs) ==
  CHOOSE m \in {secs[i].order : i \in DOMAIN secs} :
    \A i \in DOMAIN secs : secs[i].order <= m

RemediationSection(secs) ==
  [title |-> "Remediation Questions",
   order |-> IF secs # <<>> THEN MaxOrder(secs) + 1 ELSE 1,
   is_mandatory |-> TRUE, triggering_criteria |-> "null",
   core_questions |-> ListOf(<<>>), conditional_questions |-> <<>>]

\* list.sort(key=order) after appending sec: stable, so sec goes behind the
\* sections whose order is not larger
SortedInsert(secs, sec) ==
  LET NotAfter(x) == x.order <= sec.order
      After(x) == x.order > sec.order
  IN SelectSeq(secs, NotAfter) \o <<sec>> \o SelectSeq(secs, After)

IsMandatoryCore(sec) == sec.is_mandatory /\ sec.core_questions.k = "list"

\* lines 1084-1108: which case applies, the section list and the target's index
target_section(secs) ==
  IF \E i \in DOMAIN secs : IsMandatoryCore(secs[i])
    THEN [case |-> 1, sections |-> secs,
          index |-> CHOOSE i \in DOMAIN secs :
                      /\ IsMandatoryCore(secs[i])
                      /\ \A j \in 1..(i - 1) : ~IsMandatoryCore(secs[j])]
  ELSE IF secs # <<>>
    THEN [case |-> 2, sections |-> secs, index |-> 1]
  ELSE LET new == RemediationSection(secs)
           sorted == SortedInsert(secs, new)
       IN [case |-> 3, sections |-> sorted,
           index |-> CHOOSE i \in DOMAIN sorted : sorted[i] = new]

\* lines 1114-1117: process and append the added questions one by one; a
\* question that is not a dict, or a target without a core_questions list,
\* raises and ends the loop
RECURSIVE AppendLoop(_, _, _)
AppendLoop(items, draws, acc) ==
  IF items = <<>> \/ acc.raised THEN acc
  ELSE IF ~Head(items).wellformed THEN [acc EXCEPT !.raised = TRUE]
  ELSE LET p == process_question_properties(Head(items), TRUE, acc.all_existing_q_vars,
                                           Head(draws), acc.project_id)
           grown == [acc EXCEPT !.all_existing_q_vars = p.all_existing_q_vars,
                                !.errors = @ \o p.errors]
       IN IF acc.core_questions.k # "list" THEN [grown EXCEPT !.raised = TRUE]
          ELSE AppendLoop(Tail(items), Tail(draws),
                          [grown EXCEPT !.core_questions.v = Append(@, p.question),
                                        !.appended = @ + 1])


\* ------------------------------------------------------------ the state
\* state: the snapshot (GraphState) the caller holds; the node mutates it in
\*        place.  pre: the snapshot as it was when the last call began.
\* ret:   "ready" before the call, then "returned" or "raised".
\* loc:   the locals of the last call of analyze_questionnaire_impact.
\* calls: the number of the call, counting the calls of the workflow's steps
\*        on the snapshot.
VARIABLES state, pre, ret, loc, calls

vars == <<state, pre, ret, loc, calls>>

NoLocals ==
  [scanned |-> FALSE, uncovered |-> <<>>, problematic |-> <<>>, missing |-> {},
   vars_to_address |-> {}, trace |-> <<>>, requests |-> 0, response |-> NoResponse,
   case |-> 0, index |-> 0, appended |-> 0]

Init ==
  /\ state \in InitSnapshots
  /\ pre = state
  /\ ret = "ready"
  /\ loc = NoLocals
  /\ calls = 1

WithError(s, e) == [s EXCEPT !.error = e]
WithAvs(s, avs) == [s EXCEPT !.assessment_variables = Some(avs)]
WithSections(s, secs) == [s EXCEPT !.questionnaire = Some([@[1] EXCEPT !.sections = secs])]
WithCalcMap(s, cm) ==
  [s EXCEPT !.questionnaire = Some([@[1] EXCEPT !.assessment_variable_calculation = Some(cm)])]

\* lines 928-933
NothingToAnalyze(s) == Avs(s) = <<>> \/ Sections(s) = <<>>

\* lines 935-1013 on the entered snapshot s, the placeholders appended in
\* the given order
Scan(s, order) ==
  LET secs == Sections(s)
      avs == AddPlaceholders(Avs(s), order)
      uncovered == uncovered_assessment_vars(secs, Avs(s))
      problematic ==
        problemmatic_calculation_vars(CalcMap(s), VarNames(avs), all_question_vars(secs),
                                      KeyOrder(CalcMap(s)))
  IN [avs |-> avs,
      missing |-> referenced_but_missing_avs(secs, Avs(s)),
      uncovered |-> [i \in DOMAIN uncovered |-> uncovered[i].var_name],
      problematic |-> problematic,
      vars_to_address |->
        vars_to_address(uncovered, problematic, referenced_but_missing_avs(secs, Avs(s)))]

ScanRaises(s, order) ==
  \/ QuestionLoopRaises(Sections(s))
  \/ CalcLoopRaises(CalcMap(s), VarNames(AddPlaceholders(Avs(s), order)))

ScanLocals(sc, trace) ==
  [NoLocals EXCEPT !.scanned = TRUE, !.uncovered = sc.uncovered,
                   !.problematic = sc.problematic, !.missing = sc.missing,
                   !.vars_to_address = sc.vars_to_address, !.trace = trace]

\* lines 1015-1016: the snapshot when the remediation request is issued
Flagged(s, sc) ==
  WithError(WithAvs(s, sc.avs),
            ErrorAppend(s.error, "Warning: not fully covered or problematic calculations"))

\* variant that merges the map before the questions are appended
MergedCalcMap_Early(cm, updated_calc_map, raised) ==
  IF updated_calc_map # EmptyMap THEN MapUpdate(cm, updated_calc_map) ELSE cm

\* lines 1119-1122, reached when no exception ended the loop: dict.update
MergedCalcMap(cm, updated_calc_map, raised) ==
  IF ~raised /\ updated_calc_map # EmptyMap THEN MapUpdate(cm, updated_calc_map) ELSE cm

\* variant in which av_varname_map is not told of the placeholders (line 982)
uncovered_vars_info_Listed(vta, avs) ==
  {v \in vta : \E i \in DOMAIN avs : avs[i].var_name = v /\ avs[i].description # "placeholder"}

\* line 1023: the variables sent with the remediation request, by var_name;
\* av_varname_map holds the listed variables and the placeholders
uncovered_vars_info(vta, avs) == {v \in vta : v \in VarNames(avs)}

\* lines 1064-1067: the format error is recorded
format_error(s) == WithError(s, ErrorAppend(s.error, "LLM remediation output format error"))

\* lines 1069-1126 for a response that is a dict
Remediated(s, resp, draws) ==
  LET updated == resp.updated_assessment_variable_calculation
      updated_calc_map == IF updated.k = "dict" THEN updated.v ELSE EmptyMap
      items == resp.added_questions
      t == target_section(Sections(s))
      start == [core_questions |-> t.sections[t.index].core_questions,
                all_existing_q_vars |-> all_question_vars(Sections(s)),
                project_id |-> s.project_id,
                errors |-> <<>>, appended |-> 0, raised |-> FALSE]
      loop == IF items = <<>> THEN start ELSE AppendLoop(items, draws, start)
      secs == IF items = <<>> THEN Sections(s)
              ELSE [t.sections EXCEPT ![t.index].core_questions = loop.core_questions]
      msgs == (IF updated.k = "dict" THEN <<>>
               ELSE <<"Warning: invalid calculation map">>) \o loop.errors
      err == Some(s.error[1] \o msgs)
      cm == MergedCalcMap(CalcMap(s), updated_calc_map, loop.raised)
  IN [raised |-> loop.raised,
      appended |-> loop.appended,
      case |-> IF items = <<>> THEN 0 ELSE t.case,
      index |-> IF items = <<>> THEN 0 ELSE t.index,
      state |->
        WithError(WithCalcMap(WithSections(s, secs), cm),
                  ErrorAppend(err, IF loop.raised
                                     THEN "Error during questionnaire impact remediation"
                                     ELSE "Warning: attempt was made to add questions"))]

\* the uuid4 and refinement draws for the questions of a response, secs being
\* the sections before it is applied; a draw that the helper cannot consume
\* (no name to generate, no possible collision, a usable formula, a core
\* question's triggering criteria) is fixed
NoAnswer == [i \in 1..max_retries |-> "none"]

DefaultDraw ==
  [uuid |-> CHOOSE u \in Uuid4 : TRUE, hex4 |-> CHOOSE h \in Hex4 : TRUE,
   hex8 |-> CHOOSE h \in Hex8 : TRUE, formula |-> NoAnswer, criteria |-> NoAnswer]

DrawsOf(item, taken) ==
  {d \in Draws :
     /\ d.criteria = NoAnswer
     /\ item.variable_name # NoName => d.hex8 = DefaultDraw.hex8
     /\ (~item.wellformed \/ IsUsableExpression(item.formula)) => d.formula = NoAnswer
     /\ (~item.wellformed \/ NormalizeVariableName(item.variable_name) \notin taken)
          => d.hex4 = DefaultDraw.hex4}

RECURSIVE DrawSeqs(_, _)
DrawSeqs(items, taken) ==
  IF items = <<>> THEN {<<>>}
  ELSE {<<d>> \o rest :
          d \in DrawsOf(Head(items), taken),
          rest \in DrawSeqs(Tail(items),
                            taken \cup {NormalizeVariableName(Head(items).variable_name)})}

DrawsFor(items, secs) == DrawSeqs(items, all_question_vars(secs))

\* one call on the snapshot st with the environment's choices: the scan,
\* the snapshot when the request is issued, the locals, and what applying a
\* dict response leaves
PassScan(st, order) == Scan(Entered(st), order)

PassCompletesScan(st, order) ==
  ~NothingToAnalyze(Entered(st)) /\ ~ScanRaises(Entered(st), order)

PassFlagged(st, order) == Flagged(Entered(st), PassScan(st, order))

PassLocals(st, order, resp) ==
  [ScanLocals(PassScan(st, order), <<"Scanning", "NeedsRemediation", "Remediating">>)
     EXCEPT !.requests = 1, !.response = resp]

PlaceholderOrders(st) == Orderings(referenced_but_missing_avs(Sections(st), Avs(st)))

\* line 1025: a request is issued when there is a variable to send
RequestIssued(st, order) ==
  uncovered_vars_info(PassScan(st, order).vars_to_address, PassScan(st, order).avs) # {}

\* --------------------------------------------------------------- actions
\* one call of analyze_questionnaire_impact(state), by the way it ends

\* lines 928-933: no assessment variables or no sections
ReturnNothingToAnalyze ==
  /\ ret = "ready"
  /\ NothingToAnalyze(Entered(state))
  /\ pre' = state
  /\ state' = Entered(state)
  /\ ret' = "returned"
  /\ loc' = [NoLocals EXCEPT !.trace = <<"Entry">>]
  /\ UNCHANGED calls

\* lines 944-1004: an exception leaves the node during Scanning
ScanningRaises ==
  /\ ret = "ready"
  /\ ~NothingToAnalyze(Entered(state))
  /\ \E order \in PlaceholderOrders(state) :
       LET s == Entered(state) IN
       /\ ScanRaises(s, order)
       /\ state' = IF QuestionLoopRaises(Sections(s)) THEN s
                   ELSE WithAvs(s, AddPlaceholders(Avs(s), order))
  /\ pre' = state
  /\ ret' = "raised"
  /\ loc' = [NoLocals EXCEPT !.trace = <<"Scanning">>]
  /\ UNCHANGED calls

\* lines 1015-1025, 1135-1139: the node returns without a remediation
\* request; nothing to address clears the error, variables to address of
\* which none is known leave the warning
ReturnWithoutRequest ==
  /\ ret = "ready"
  /\ \E order \in PlaceholderOrders(state) :
       /\ PassCompletesScan(state, order)
       /\ ~RequestIssued(state, order)
       /\ IF PassScan(state, order).vars_to_address = {}
            THEN /\ state' = WithError(WithAvs(Entered(state), PassScan(state, order).avs),
                                       None)
                 /\ loc' = ScanLocals(PassScan(state, order), <<"Scanning", "Clean">>)
            ELSE /\ state' = PassFlagged(state, order)
                 /\ loc' = ScanLocals(PassScan(state, order),
                                      <<"Scanning", "NeedsRemediation">>)
  /\ pre' = state
  /\ ret' = "returned"
  /\ UNCHANGED calls

\* lines 1055-1059, 1129-1133: the remediation request raises
RemediationRequestFails ==
  /\ ret = "ready"
  /\ \E order \in PlaceholderOrders(state) :
       /\ PassCompletesScan(state, order)
       /\ RequestIssued(state, order)
       /\ state' = WithError(PassFlagged(state, order),
                     ErrorAppend(PassFlagged(state, order).error,
                                 "Error during questionnaire impact remediation"))
       /\ loc' = PassLocals(state, order, [NoResponse EXCEPT !.kind = "raise"])
  /\ pre' = state
  /\ ret' = "returned"
  /\ UNCHANGED calls

\* lines 1064-1067: the response is not a dict
RemediationMalformed ==
  /\ ret = "ready"
  /\ \E order \in PlaceholderOrders(state) :
       /\ PassCompletesScan(state, order)
       /\ RequestIssued(state, order)
       /\ \E resp \in Returned :
            /\ ~ResponseIsDict(resp)
            /\ state' = format_error(PassFlagged(state, order))
            /\ loc' = PassLocals(state, order, resp)
  /\ pre' = state
  /\ ret' = "returned"
  /\ UNCHANGED calls

\* lines 1069-1127: the response is a dict and is applied to the end
RemediationApplied ==
  /\ ret = "ready"
  /\ \E order \in PlaceholderOrders(state) :
       /\ PassCompletesScan(state, order)
       /\ RequestIssued(state, order)
       /\ \E flagged \in {PassFlagged(state, order)},
             locals \in {PassLocals(state, order, NoResponse)},
             resp \in Returned :
               /\ ResponseIsDict(resp)
               /\ \E draws \in DrawsFor(resp.added_questions, Sections(state)) :
                    \E r \in {Remediated(flagged, resp, draws)} :
                    /\ ~r.raised
                    /\ state' = r.state
                    /\ loc' = [locals EXCEPT !.response = resp, !.case = r.case,
                                             !.index = r.index, !.appended = r.appended]
  /\ pre' = state
  /\ ret' = "returned"
  /\ UNCHANGED calls

\* lines 1069-1117, then 1129-1133: an exception while the questions of a
\* dict response are processed and appended
RemediationInterrupted ==
  /\ ret = "ready"
  /\ \E order \in PlaceholderOrders(state) :
       /\ PassCompletesScan(state, order)
       /\ RequestIssued(state, order)
       /\ \E flagged \in {PassFlagged(state, order)},
             locals \in {PassLocals(state, order, NoResponse)},
             resp \in Returned :
               /\ ResponseIsDict(resp)
               /\ \E draws \in DrawsFor(resp.added_questions, Sections(state)) :
                    \E r \in {Remediated(flagged, resp, draws)} :
                    /\ r.raised
                    /\ state' = r.state
                    /\ loc' = [locals EXCEPT !.response = resp, !.case = r.case,
                                             !.index = r.index, !.appended = r.appended]
  /\ pre' = state
  /\ ret' = "returned"
  /\ UNCHANGED calls

Next ==
  \/ ReturnNothingToAnalyze
  \/ ScanningRaises
  \/ ReturnWithoutRequest
  \/ RemediationRequestFails
  \/ RemediationMalformed
  \/ RemediationApplied
  \/ RemediationInterrupted

Spec == Init /\ [][Next]_vars

\* ------------------------------------- the refinement helper on its own
\* One call of _refine_js_expression.  state holds the arguments and the
\* outcome of each attempt the text-generation service would give, loc the
\* returned value and the number of requests sent.
RefineOutcomes == [1..max_retries -> {"raise", "none", "return true;", "generated"}]

RefineInputs ==
  [expression_type : {"formula", "triggering_criteria"},
   current_expression : {"null", "", "return true;", "expr", FailureMarker},
   is_mandatory_flag : BOOLEAN,
   outcomes : RefineOutcomes]

RefineInit ==
  /\ state \in RefineInputs
  /\ pre = state
  /\ ret = "ready"
  /\ loc = [result |-> "null", calls |-> 0]
  /\ calls = 1

\* lines 67-68
RefineMandatoryCriteria ==
  /\ ret = "ready"
  /\ state.expression_type = "triggering_criteria" /\ state.is_mandatory_flag
  /\ loc' = [result |-> refine_js_expression(state.expression_type,
                                             state.current_expression,
                                             state.is_mandatory_flag, state.outcomes),
             calls |-> 0]
  /\ ret' = "returned"
  /\ UNCHANGED <<state, pre, calls>>

\* lines 73-74
RefineKeepsExpression ==
  /\ ret = "ready"
  /\ ~(state.expression_type = "triggering_criteria" /\ state.is_mandatory_flag)
  /\ IsUsableExpression(state.current_expression)
  /\ loc' = [result |-> refine_js_expression(state.expression_type,
                                             state.current_expression,
                                             state.is_mandatory_flag, state.outcomes),
             calls |-> 0]
  /\ ret' = "returned"
  /\ UNCHANGED <<state, pre, calls>>

\* lines 76-115
RefineAsksService ==
  /\ ret = "ready"
  /\ ~(state.expression_type = "triggering_criteria" /\ state.is_mandatory_flag)
  /\ ~IsUsableExpression(state.current_expression)
  /\ loc' = [result |-> refine_js_expression(state.expression_type,
                                             state.current_expression,
                                             state.is_mandatory_flag, state.outcomes),
             calls |-> RetryCalls(state.outcomes, 0)]
  /\ ret' = "returned"
  /\ UNCHANGED <<state, pre, calls>>

RefineNext ==
  \/ RefineMandatoryCriteria
  \/ RefineKeepsExpression
  \/ RefineAsksService

RefineSpec == RefineInit /\ [][RefineNext]_vars

\* ------------------------------------------------ the variables workflow
\* generate_variables and modify_variables_llm on a snapshot with the fields
\* error, project_id, assessment_variables (the raw indicators) and
\* computational_variables (the decision variables).  A variable is a dict
\* with the keys id, name, var_name and formula; ids and names are character
\* sequences, a formula is one of the strings the refinement helper tells
\* apart.  The variables the service suggests carry a name (VariableSchema).
MaxCalls == 3

ProjectP == <<"p">>
BaseX == <<"x">>
BaseY == <<"y">>
BaseZ == <<"z">>
PlaceholderFormula == "// Placeholder formula"

VarDict(id, name, var_name, formula) ==
  [id |-> id, name |-> name, var_name |-> var_name, formula |-> formula]

\* str(uuid.uuid4()): the draws, in the order they are made
UuidPool ==
  <<<<"u", "1">>, <<"u", "2">>, <<"u", "3">>, <<"u", "4">>, <<"u", "5">>, <<"u", "6">>,
    <<"u", "7">>, <<"u", "8">>>>

\* id.split('_', 1)[-1]
BaseIdOf(id) ==
  IF \E i \in DOMAIN id : id[i] = "_"
    THEN LET k == CHOOSE i \in DOMAIN id : id[i] = "_" /\ \A j \in 1..(i - 1) : id[j] # "_"
         IN SubSeq(id, k + 1, Len(id))
    ELSE id

\* lines 117-156, for a variable that carries a name
apply_default_variable_properties(var, is_assessment_var, project_id, uuid) ==
  LET base_id == IF var.id # NoName THEN var.id ELSE uuid
      id == IF project_id # None /\ project_id[1] # <<>>
              THEN project_id[1] \o <<"_">> \o base_id ELSE base_id
  IN [id |-> id,
      name |-> var.name,
      var_name |-> NormalizeVariableName(IF var.var_name = NoName THEN var.name
                                         ELSE var.var_name),
      formula |-> IF is_assessment_var THEN "null"
                  ELSE IF var.formula \in {"null", ""} THEN PlaceholderFormula
                  ELSE var.formula]

\* the uuid4 draw for the next variable: a value that no variable seen so
\* far carries
FreshUuid(seen) ==
  LET Unused(k) == \A i \in DOMAIN seen : BaseIdOf(seen[i].id) # UuidPool[k]
                                           /\ seen[i].id # UuidPool[k]
      k == CHOOSE k \in DOMAIN UuidPool :
             Unused(k) /\ \A j \in 1..(k - 1) : ~Unused(j)
  IN UuidPool[k]

\* lines 296-298 and 338-340: the defaults applied to each suggested variable;
\* taken are the variables the snapshot holds
RECURSIVE ApplyDefaultsToAll(_, _, _, _, _)
ApplyDefaultsToAll(suggested, is_assessment_var, project_id, taken, done) ==
  IF suggested = <<>> THEN done
  ELSE ApplyDefaultsToAll(Tail(suggested), is_assessment_var, project_id, taken,
         Append(done, apply_default_variable_properties(Head(suggested), is_assessment_var,
                                                        project_id, FreshUuid(taken \o done))))

\* the answer of the service to one request
Raise == [kind |-> "raise", v |-> <<>>]
Answer(v) == [kind |-> "dict", v |-> v]

SA1 == VarDict(NoName, <<"A">>, NoName, "null")
SA2 == VarDict(BaseX, <<"B">>, <<"a">>, "null")
SA3 == VarDict(BaseY, <<"B">>, <<"b">>, "null")
SC1 == VarDict(BaseZ, <<"C">>, <<"c">>, "return true;")
SC2 == VarDict(NoName, <<"C">>, NoName, "")
\* a computational variable computed from the assessment variable a
BaseW == <<"w">>
FormulaOfA == "return a * 2;"
SC3 == VarDict(BaseW, <<"D">>, <<"d">>, FormulaOfA)
\* an assessment variable whose id holds an underscore
BaseYV == <<"y", "_", "v">>
SA4 == VarDict(BaseYV, <<"E">>, <<"e">>, "null")

AssessmentAnswers ==
  {Raise, Answer(<<>>), Answer(<<SA2>>), Answer(<<SA1, SA2>>), Answer(<<SA2, SA3>>),
   Answer(<<SA4>>)}

ComputationalAnswers ==
  {Raise, Answer(<<>>), Answer(<<SC1>>), Answer(<<SC1, SC2>>), Answer(<<SC3>>)}

\* GraphState (src/schemas.py), the fields the two nodes read or set
VarSnapshot(error, project_id, avs, cvs) ==
  [error |-> error, project_id |-> project_id, assessment_variables |-> avs,
   computational_variables |-> cvs]

\* variant in which a failure of the second request leaves no error
generate_error_FirstOnly(error, failed) ==
  IF failed = "assessment" THEN ErrorAppend(error, "Error generating assessment variables")
  ELSE error

\* lines 300-302 and 351-353: the error field after the two steps
generate_error(error, failed) ==
  IF failed = "assessment" THEN ErrorAppend(error, "Error generating assessment variables")
  ELSE IF failed = "computational"
    THEN ErrorAppend(error, "Error generating computational variables")
  ELSE error

\* lines 264-354: the snapshot generate_variables leaves and the requests it
\* sent, for the answers the service gives to the two requests
generate_variables(s, assessment_answer, computational_answer) ==
  LET step1 == s.assessment_variables = <<>>
      failed1 == step1 /\ assessment_answer.kind = "raise"
      avs == IF step1 /\ ~failed1
               THEN ApplyDefaultsToAll(assessment_answer.v, TRUE, s.project_id,
                                       s.computational_variables, <<>>)
               ELSE s.assessment_variables
      step2 == ~failed1 /\ avs # <<>> /\ s.computational_variables = <<>>
      failed2 == step2 /\ computational_answer.kind = "raise"
      cvs == IF step2 /\ ~failed2
               THEN ApplyDefaultsToAll(computational_answer.v, FALSE, s.project_id, avs, <<>>)
               ELSE s.computational_variables
      failed == IF failed1 THEN "assessment" ELSE IF failed2 THEN "computational" ELSE "none"
  IN [state |-> VarSnapshot(generate_error(s.error, failed), s.project_id, avs, cvs),
      requests |-> (IF step1 THEN <<"assessment">> ELSE <<>>)
                   \o (IF step2 THEN <<"computational">> ELSE <<>>),
      failed |-> failed]

\* lines 385-392 and 430-436: removal by base id
RemoveByBaseId(vars_list, removed_ids) ==
  LET removed_base_ids == {BaseIdOf(removed_ids[i]) : i \in DOMAIN removed_ids}
      Keep(var) == BaseIdOf(var.id) \notin removed_base_ids
  IN SelectSeq(vars_list, Keep)

\* lines 395-411 and 439-453: the first variable whose base id matches takes
\* the keys of update_data other than id and has the defaults applied again
UpdateOne(vars_list, update_data, is_assessment_var, project_id) ==
  LET hit == {i \in DOMAIN vars_list : BaseIdOf(vars_list[i].id) = update_data.id}
  IN IF hit = {} THEN vars_list
     ELSE LET i == CHOOSE i \in hit : \A j \in hit : i <= j
              var == MapUpdate(vars_list[i], update_data.set)
          IN [vars_list EXCEPT ![i] =
                apply_default_variable_properties(var, is_assessment_var, project_id,
                                                  UuidPool[1])]

RECURSIVE UpdateAll(_, _, _, _)
UpdateAll(vars_list, updates, is_assessment_var, project_id) ==
  IF updates = <<>> THEN vars_list
  ELSE UpdateAll(UpdateOne(vars_list, Head(updates), is_assessment_var, project_id),
                 Tail(updates), is_assessment_var, project_id)

\* lines 414-427 and 456-469: a new variable is skipped when its id is the
\* base id of a variable of the list, appended with the defaults otherwise
AddOne(vars_list, new_var_data, is_assessment_var, project_id, taken) ==
  IF new_var_data.id # NoName
       /\ \E i \in DOMAIN vars_list : BaseIdOf(vars_list[i].id) = new_var_data.id
    THEN vars_list
    ELSE Append(vars_list,
                apply_default_variable_properties(new_var_data, is_assessment_var, project_id,
                                                  FreshUuid(taken \o vars_list)))

RECURSIVE AddAll(_, _, _, _, _)
AddAll(vars_list, added, is_assessment_var, project_id, taken) ==
  IF added = <<>> THEN vars_list
  ELSE AddAll(AddOne(vars_list, Head(added), is_assessment_var, project_id, taken),
              Tail(added), is_assessment_var, project_id, taken)

\* lines 383-428 and 430-470: removals, then updates, then additions
ModifiedVariables(vars_list, removed_ids, updates, added, is_assessment_var, project_id, taken) ==
  AddAll(UpdateAll(RemoveByBaseId(vars_list, removed_ids), updates, is_assessment_var,
                   project_id),
         added, is_assessment_var, project_id, taken)

\* lines 474-528: every computational variable has its formula refined; a
\* failure marker adds a diagnostic to the error field
RefinedFormula(cv, answers) == refine_js_expression("formula", cv.formula, TRUE, answers)

RefinedVariables(cvs, answers) ==
  [i \in DOMAIN cvs |-> [cvs[i] EXCEPT !.formula = RefinedFormula(cvs[i], answers[i])]]

RECURSIVE FormulaDiagnostics(_, _, _)
FormulaDiagnostics(cvs, answers, i) ==
  IF i > Len(cvs) THEN <<>>
  ELSE (IF RefinedFormula(cvs[i], answers[i]) # FailureMarker THEN <<>>
        ELSE IF cvs[i].formula \in {"null", ""}
          THEN <<"ERROR: Failed to generate initial formula">>
        ELSE <<"ERROR: problematic formula after AV modifications">>)
       \o FormulaDiagnostics(cvs, answers, i + 1)

\* lines 362, 503, 515 and 531: the error field after a call whose request
\* was answered
modify_error(error, diagnostics) == None

Modification(removed_a, updated_a, added_a, removed_c, updated_c, added_c) ==
  [removed_assessment_variable_ids |-> removed_a,
   updated_assessment_variables |-> updated_a,
   added_assessment_variables |-> added_a,
   removed_computational_variable_ids |-> removed_c,
   updated_computational_variables |-> updated_c,
   added_computational_variables |-> added_c]

\* VariableModification: the id to match and the keys to set
RenameToB == [id |-> BaseX, set |-> [k \in {"var_name"} |-> <<"B">>]]
SetTrivialFormula == [id |-> BaseZ, set |-> [k \in {"formula"} |-> "return true;"]]
AddedA == VarDict(BaseY, <<"A">>, <<"A">>, "null")

ModificationAnswers ==
  {Raise,
   Answer(Modification(<<>>, <<>>, <<>>, <<>>, <<>>, <<>>)),
   Answer(Modification(<<BaseX>>, <<>>, <<>>, <<>>, <<>>, <<>>)),
   Answer(Modification(<<BaseYV>>, <<>>, <<>>, <<>>, <<>>, <<>>)),
   Answer(Modification(<<>>, <<RenameToB>>, <<>>, <<>>, <<>>, <<>>)),
   Answer(Modification(<<>>, <<>>, <<AddedA>>, <<>>, <<>>, <<>>)),
   Answer(Modification(<<>>, <<>>, <<>>, <<ProjectP \o <<"_">> \o BaseZ>>, <<>>, <<>>)),
   Answer(Modification(<<>>, <<>>, <<>>, <<>>, <<SetTrivialFormula>>, <<>>)),
   Answer(Modification(<<>>, <<>>, <<>>, <<>>, <<>>, <<SC1>>)),
   Answer(Modification(<<BaseY>>, <<RenameToB>>, <<AddedA>>, <<>>, <<SetTrivialFormula>>,
                       <<SC2>>))}

\* lines 356-537 for a call with a modification prompt: the snapshot the node
\* leaves and the diagnostics it appended on the way; answers[i] are the
\* outcomes of the refinement requests for the i-th computational variable
modify_variables_llm(s, answer, answers) ==
  IF answer.kind = "raise"
    THEN [state |-> [s EXCEPT !.error =
                       ErrorAppend(s.error,
                                   "ERROR: LLM failed to generate variable modifications")],
          diagnostics |-> <<>>, failed |-> TRUE]
  ELSE
    LET m == answer.v
        avs == ModifiedVariables(s.assessment_variables, m.removed_assessment_variable_ids,
                                 m.updated_assessment_variables, m.added_assessment_variables,
                                 TRUE, s.project_id, s.computational_variables)
        cvs == ModifiedVariables(s.computational_variables,
                                 m.removed_computational_variable_ids,
                                 m.updated_computational_variables,
                                 m.added_computational_variables, FALSE, s.project_id, avs)
        diagnostics == FormulaDiagnostics(cvs, answers, 1)
    IN [state |-> VarSnapshot(modify_error(s.error, diagnostics), s.project_id, avs,
                              RefinedVariables(cvs, answers)),
        diagnostics |-> diagnostics, failed |-> FALSE]

\* the computational variables as they stand when the refinement loop of
\* line 474 begins
VariablesToRefine(s, answer) ==
  IF answer.kind = "raise" THEN <<>>
  ELSE ModifiedVariables(s.computational_variables,
                         answer.v.removed_computational_variable_ids,
                         answer.v.updated_computational_variables,
                         answer.v.added_computational_variables, FALSE, s.project_id,
                         ModifiedVariables(s.assessment_variables,
                                           answer.v.removed_assessment_variable_ids,
                                           answer.v.updated_assessment_variables,
                                           answer.v.added_assessment_variables,
                                           TRUE, s.project_id, s.computational_variables))

\* the outcomes of the refinement requests of one call; a variable whose
\* formula is returned as it is sends none
FormulaAnswers(cvs) ==
  {a \in [DOMAIN cvs -> RefineAnswers] :
     \A i \in DOMAIN cvs : IsUsableExpression(cvs[i].formula) => a[i] = NoAnswer}

VarInit ==
  /\ state \in {VarSnapshot(e, p, <<>>, <<>>) : e \in InitErrors, p \in {None, Some(ProjectP)}}
  /\ pre = state
  /\ ret = "ready"
  /\ loc = [op |-> "none", requests |-> <<>>, failed |-> "none", diagnostics |-> <<>>,
            modifications |-> Raise]
  /\ calls = 1

\* generate_variables, both requests answered or not needed
GenerateVariablesReturns ==
  /\ ret = "ready"
  /\ \E a \in AssessmentAnswers, c \in ComputationalAnswers :
       \E r \in {generate_variables(state, a, c)} :
         /\ r.failed = "none"
         /\ state' = r.state
         /\ loc' = [loc EXCEPT !.op = "generate", !.requests = r.requests,
                               !.failed = r.failed, !.diagnostics = <<>>,
                               !.modifications = Raise]
  /\ pre' = state
  /\ ret' = "returned"
  /\ UNCHANGED calls

\* generate_variables, the request for assessment variables raises
GenerateAssessmentRaises ==
  /\ ret = "ready"
  /\ \E a \in AssessmentAnswers, c \in ComputationalAnswers :
       \E r \in {generate_variables(state, a, c)} :
         /\ r.failed = "assessment"
         /\ state' = r.state
         /\ loc' = [loc EXCEPT !.op = "generate", !.requests = r.requests,
                               !.failed = r.failed, !.diagnostics = <<>>,
                               !.modifications = Raise]
  /\ pre' = state
  /\ ret' = "returned"
  /\ UNCHANGED calls

\* generate_variables, the request for computational variables raises
GenerateComputationalRaises ==
  /\ ret = "ready"
  /\ \E a \in AssessmentAnswers, c \in ComputationalAnswers :
       \E r \in {generate_variables(state, a, c)} :
         /\ r.failed = "computational"
         /\ state' = r.state
         /\ loc' = [loc EXCEPT !.op = "generate", !.requests = r.requests,
                               !.failed = r.failed, !.diagnostics = <<>>,
                               !.modifications = Raise]
  /\ pre' = state
  /\ ret' = "returned"
  /\ UNCHANGED calls

\* modify_variables_llm without a modification prompt (lines 377-379)
ModifyVariablesWithoutPrompt ==
  /\ ret = "ready"
  /\ loc' = [loc EXCEPT !.op = "modify", !.requests = <<>>, !.failed = "none",
                        !.diagnostics = <<>>, !.modifications = Raise]
  /\ pre' = state
  /\ ret' = "returned"
  /\ UNCHANGED state
  /\ UNCHANGED calls

\* modify_variables_llm, the request raises (lines 533-535)
ModifyVariablesRaises ==
  /\ ret = "ready"
  /\ \E r \in {modify_variables_llm(state, Raise, <<>>)} :
       /\ state' = r.state
       /\ loc' = [loc EXCEPT !.op = "modify", !.requests = <<"modification">>,
                             !.failed = "modification", !.diagnostics = <<>>,
                             !.modifications = Raise]
  /\ pre' = state
  /\ ret' = "returned"
  /\ UNCHANGED calls

\* modify_variables_llm, the modifications are applied (lines 381-531)
ModifyVariablesApplied ==
  /\ ret = "ready"
  /\ \E answer \in ModificationAnswers \ {Raise} :
       \E cvs \in {VariablesToRefine(state, answer)} :
         \E answers \in FormulaAnswers(cvs) :
           \E r \in {modify_variables_llm(state, answer, answers)} :
             /\ state' = r.state
             /\ loc' = [loc EXCEPT !.op = "modify", !.requests = <<"modification">>,
                                   !.failed = "none", !.diagnostics = r.diagnostics,
                                   !.modifications = answer]
  /\ pre' = state
  /\ ret' = "returned"
  /\ UNCHANGED calls

\* the workflow goes on to its next step with the snapshot it was returned
VarNextCall ==
  /\ ret = "returned"
  /\ calls < MaxCalls
  /\ ret' = "ready"
  /\ calls' = calls + 1
  /\ UNCHANGED <<state, pre, loc>>

VarNext ==
  \/ GenerateVariablesReturns
  \/ GenerateAssessmentRaises
  \/ GenerateComputationalRaises
  \/ ModifyVariablesWithoutPrompt
  \/ ModifyVariablesRaises
  \/ ModifyVariablesApplied
  \/ VarNextCall

VarSpec == VarInit /\ [][VarNext]_vars

\* -------------------------------------------- the questionnaire workflow
\* generate_questionnaire, modify_questionnaire_llm and
\* analyze_questionnaire_impact called one after the other on a snapshot.
\* A section or question as the service returns it has the fields of Section
\* and Item; order 0 stands for a section without the key order.

\* the outcomes of a refinement request for triggering criteria: nothing,
\* an expression, or a response that is trivial or empty
CriteriaAnswers ==
  RefineAnswers \cup
  {[i \in 1..max_retries |-> IF i = 1 THEN "return true;" ELSE "none"],
   [i \in 1..max_retries |-> IF i = 1 THEN "" ELSE "none"]}

QuestDraws ==
  [uuid : Uuid4, hex4 : Hex4, hex8 : Hex8, formula : RefineAnswers,
   criteria : CriteriaAnswers]

\* the draws one call of _process_section_properties can consume
SectionDraws(section) ==
  {d \in QuestDraws :
     /\ d.hex4 = DefaultDraw.hex4
     /\ d.formula = NoAnswer
     /\ (section.is_mandatory \/ IsUsableExpression(section.triggering_criteria))
          => d.criteria = NoAnswer}

\* the draws one call of _process_question_properties can consume
QuestionDraws(q, is_core_question) ==
  {d \in QuestDraws :
     /\ q.variable_name = NoName => d.hex4 = DefaultDraw.hex4
     /\ IsUsableExpression(q.formula) => d.formula = NoAnswer
     /\ (is_core_question \/ IsUsableExpression(q.triggering_criteria))
          => d.criteria = NoAnswer}

\* the sequences whose i-th element is drawn from sets[i]
RECURSIVE DrawProduct(_)
DrawProduct(sets) ==
  IF sets = <<>> THEN {<<>>}
  ELSE {<<d>> \o rest : d \in Head(sets), rest \in DrawProduct(Tail(sets))}

\* lines 226-257: the section after the helper and the diagnostics appended
process_section_properties(section, d) ==
  LET refined_criteria ==
        refine_js_expression("triggering_criteria", section.triggering_criteria, FALSE,
                             d.criteria)
  IN [section |->
        [section EXCEPT
           !.core_questions = IF @.k = "missing" THEN ListOf(<<>>) ELSE @,
           !.triggering_criteria = IF section.is_mandatory THEN "null"
                                   ELSE refined_criteria],
      errors |-> IF ~section.is_mandatory /\ refined_criteria = FailureMarker
                   THEN <<"ERROR: Section has problematic triggering_criteria">>
                   ELSE <<>>]

\* acc after one question: acc holds the processed questions, the name set,
\* the diagnostics, the draws not consumed yet and whether every suffix was
\* a fresh one
AfterQuestion(acc, p, fresh) ==
  [done |-> Append(acc.done, p.question),
   all_existing_q_vars |-> p.all_existing_q_vars,
   errors |-> acc.errors \o p.errors,
   draws |-> Tail(acc.draws),
   fresh |-> acc.fresh /\ fresh]

\* lines 618-623: the helper applied to the questions of a list in turn
RECURSIVE ProcessQuestionList(_, _, _, _)
ProcessQuestionList(qs, is_core_question, project_id, acc) ==
  IF qs = <<>> THEN acc
  ELSE ProcessQuestionList(Tail(qs), is_core_question, project_id,
         AfterQuestion(acc,
                       process_question_properties(Head(qs), is_core_question,
                                                   acc.all_existing_q_vars, Head(acc.draws),
                                                   project_id),
                       FreshSuffix(Head(qs), acc.all_existing_q_vars, Head(acc.draws))))

\* lines 613-623: one section of the generated questionnaire: the section
\* helper, then the core questions, then the conditional ones
AfterConditional(acc, sp, core, cond) ==
  [done |-> Append(acc.done,
                   [sp.section EXCEPT !.core_questions = ListOf(core.done),
                                      !.conditional_questions = cond.done]),
   all_existing_q_vars |-> cond.all_existing_q_vars,
   errors |-> cond.errors,
   draws |-> cond.draws,
   fresh |-> cond.fresh]

AfterCore(acc, sp, core, project_id) ==
  AfterConditional(acc, sp, core,
                   ProcessQuestionList(sp.section.conditional_questions, FALSE, project_id,
                                       [core EXCEPT !.done = <<>>]))

AfterSection(acc, sp, project_id) ==
  AfterCore(acc, sp,
            ProcessQuestionList(sp.section.core_questions.v, TRUE, project_id,
                                [done |-> <<>>,
                                 all_existing_q_vars |-> acc.all_existing_q_vars,
                                 errors |-> acc.errors \o sp.errors,
                                 draws |-> Tail(acc.draws),
                                 fresh |-> acc.fresh]),
            project_id)

\* lines 608-623: the sections of the generated questionnaire in turn
RECURSIVE GenerateSections(_, _, _, _)
GenerateSections(raw, idx, project_id, acc) ==
  IF idx > Len(raw) THEN acc
  ELSE GenerateSections(raw, idx + 1, project_id,
         AfterSection(acc,
                      process_section_properties(
                        [raw[idx] EXCEPT !.order = IF @ = 0 THEN idx ELSE @],
                        Head(acc.draws)),
                      project_id))

\* lines 594-599: the variable names the generated questions carry
RawQuestionVars(raw) ==
  {q.variable_name : q \in Range(AllQuestions(raw))} \ {NoName}

\* line 597: iterating a core_questions that is null raises TypeError
CoreListRaises(raw) == \E i \in DOMAIN raw : raw[i].core_questions.k = "null"

\* the draws of one call of generate_questionnaire, in the order of use
RECURSIVE GenerateDrawSets(_)
GenerateDrawSets(raw) ==
  IF raw = <<>> THEN <<>>
  ELSE <<SectionDraws(Head(raw))>>
       \o [i \in DOMAIN GetOrEmpty(Head(raw).core_questions) |->
             QuestionDraws(GetOrEmpty(Head(raw).core_questions)[i], TRUE)]
       \o [i \in DOMAIN Head(raw).conditional_questions |->
             QuestionDraws(Head(raw).conditional_questions[i], FALSE)]
       \o GenerateDrawSets(Tail(raw))

\* line 625: the processed questionnaire is stored; the diagnostics of the
\* helpers were appended to state["error"] on the way
StoreGenerated(s, answer, g) ==
  [state |-> [s EXCEPT !.error = IF g.errors = <<>> THEN s.error
                                 ELSE Some(ErrorMessages(s.error) \o g.errors),
                       !.questionnaire = Some([answer.v EXCEPT !.sections = g.done])],
   raised |-> FALSE, errors |-> g.errors, fresh |-> g.fresh]

GenerationRaises(answer) ==
  IF answer.kind = "raise" THEN TRUE ELSE CoreListRaises(answer.v.sections)

\* lines 539-634: the snapshot generate_questionnaire leaves when the service
\* answers the questionnaire answer.v; a core_questions that is null raises
\* at line 597 before anything is processed
generate_questionnaire(s, answer, draws) ==
  IF GenerationRaises(answer)
    THEN [state |-> WithError(s, ErrorAppend(s.error, "Error generating questionnaire")),
          raised |-> TRUE, errors |-> <<>>, fresh |-> TRUE]
  ELSE StoreGenerated(s, answer,
         GenerateSections(answer.v.sections, 1, s.project_id,
           [done |-> <<>>, all_existing_q_vars |-> RawQuestionVars(answer.v.sections),
            errors |-> <<>>, draws |-> draws, fresh |-> TRUE]))

\* lines 691-700: the sections whose order is not removed, sorted by order
\* and numbered from 1
RECURSIVE SortByOrder(_)
SortByOrder(secs) ==
  IF secs = <<>> THEN <<>>
  ELSE SortedInsert(SortByOrder(SubSeq(secs, 1, Len(secs) - 1)), secs[Len(secs)])

RemoveSections(secs, removed_section_orders) ==
  IF removed_section_orders = <<>> THEN secs
  ELSE LET Keep(sec) == sec.order \notin Range(removed_section_orders)
           sorted == SortByOrder(SelectSeq(secs, Keep))
       IN [i \in DOMAIN sorted |-> [sorted[i] EXCEPT !.order = i]]

\* acc after a section was processed and put at index i, or appended when
\* i is beyond the end; acc holds the sections, the diagnostics and the draws
\* not consumed yet
AfterProcessedSection(acc, i, sp) ==
  [secs |-> IF i \in DOMAIN acc.secs THEN [acc.secs EXCEPT ![i] = sp.section]
            ELSE Append(acc.secs, sp.section),
   errors |-> acc.errors \o sp.errors,
   draws |-> Tail(acc.draws)]

\* lines 713-725: the first section with the order of updated_sec_data takes
\* its keys and is processed again
UpdateSection(acc, updated_sec_data) ==
  LET hit == {i \in DOMAIN acc.secs : acc.secs[i].order = updated_sec_data.order}
      first == CHOOSE i \in hit : \A j \in hit : i <= j
  IN IF updated_sec_data.order = 0 \/ hit = {} THEN [acc EXCEPT !.draws = Tail(@)]
     ELSE AfterProcessedSection(acc, first,
            process_section_properties(MapUpdate(acc.secs[first], updated_sec_data),
                                       Head(acc.draws)))

RECURSIVE UpdateSections(_, _)
UpdateSections(acc, updates) ==
  IF updates = <<>> THEN acc
  ELSE UpdateSections(UpdateSection(acc, Head(updates)), Tail(updates))

\* lines 730-732: a new section keeps its order when no section has it and
\* takes the largest order plus one otherwise
NewOrder(secs, order) ==
  IF order = 0 \/ \E i \in DOMAIN secs : secs[i].order = order
    THEN (IF secs # <<>> THEN MaxOrder(secs) + 1 ELSE 1)
    ELSE order

\* lines 733-736
AddSection(acc, new_sec_data) ==
  AfterProcessedSection(acc, Len(acc.secs) + 1,
    process_section_properties(
      [new_sec_data EXCEPT !.order = NewOrder(acc.secs, new_sec_data.order)],
      Head(acc.draws)))

RECURSIVE AddSections(_, _)
AddSections(acc, added) ==
  IF added = <<>> THEN acc
  ELSE AddSections(AddSection(acc, Head(added)), Tail(added))

\* a question the node holds a reference to is told apart by a tag: its
\* place among the questions when the map of line 741 is built
Tagged(q, t) == MapUpdate(q, [k \in {"tag"} |-> t])
Untagged(q) == [k \in (DOMAIN q) \ {"tag"} |-> q[k]]

RECURSIVE QuestionsBefore(_, _)
QuestionsBefore(secs, i) ==
  IF i = 1 THEN 0
  ELSE QuestionsBefore(secs, i - 1) + Len(secs[i - 1].core_questions.v)
         + Len(secs[i - 1].conditional_questions)

TagSections(secs) ==
  [i \in DOMAIN secs |->
     [secs[i] EXCEPT
        !.core_questions =
          ListOf([j \in DOMAIN secs[i].core_questions.v |->
                    Tagged(secs[i].core_questions.v[j], QuestionsBefore(secs, i) + j)]),
        !.conditional_questions =
          [j \in DOMAIN secs[i].conditional_questions |->
             Tagged(secs[i].conditional_questions[j],
                    QuestionsBefore(secs, i) + Len(secs[i].core_questions.v) + j)]]]

UntagSections(secs) ==
  [i \in DOMAIN secs |->
     [secs[i] EXCEPT
        !.core_questions = ListOf([j \in DOMAIN @.v |-> Untagged(@.v[j])]),
        !.conditional_questions = [j \in DOMAIN @ |-> Untagged(@[j])]]]

\* the questions in the order of the loops of lines 742-744, each with the
\* index of its section and the list it is in
RECURSIVE FlatQuestions(_, _)
FlatQuestions(secs, i) ==
  IF i > Len(secs) THEN <<>>
  ELSE [j \in DOMAIN secs[i].core_questions.v |->
          [q |-> secs[i].core_questions.v[j], sec |-> i, is_core |-> TRUE]]
       \o [j \in DOMAIN secs[i].conditional_questions |->
             [q |-> secs[i].conditional_questions[j], sec |-> i, is_core |-> FALSE]]
       \o FlatQuestions(secs, i + 1)

\* lines 741-750: all_questions_map, a dict keyed by id; the entries are in
\* the order the ids were first met, each holding the last question met with
\* that id
all_questions_map(secs) ==
  LET flat == FlatQuestions(secs, 1)
      IsFirst(k) == \A j \in 1..(k - 1) : flat[j].q.id # flat[k].q.id
      firsts == SelectSeq([k \in DOMAIN flat |-> k], IsFirst)
      Last(id) == CHOOSE k \in DOMAIN flat :
                    flat[k].q.id = id /\ \A j \in (k + 1)..Len(flat) : flat[j].q.id # id
  IN [n \in DOMAIN firsts |->
        LET e == flat[Last(flat[firsts[n]].q.id)]
        IN [key |-> e.q.id, tag |-> e.q.tag, name |-> e.q.variable_name,
            sec |-> e.sec, is_core |-> e.is_core]]

\* line 752: question_varname_to_prefixed_id_map; a later entry with the same
\* variable_name replaces an earlier one
question_varname_to_prefixed_id_map(entries) ==
  [n \in {entries[k].name : k \in DOMAIN entries} |->
     entries[CHOOSE k \in DOMAIN entries :
               entries[k].name = n
               /\ \A j \in (k + 1)..Len(entries) : entries[j].name # n].key]

\* lines 756-771: the removal of one question by variable_name; acc holds the
\* sections, the entries of all_questions_map and the name map
RemoveQuestion(acc, var_name_to_remove) ==
  IF var_name_to_remove \notin DOMAIN acc.names THEN acc
  ELSE
    LET id == acc.names[var_name_to_remove]
        hit == {k \in DOMAIN acc.entries : acc.entries[k].key = id}
    IN IF id = NoName \/ hit = {} THEN acc
       ELSE LET e == acc.entries[CHOOSE k \in hit : TRUE]
                Keep(q) == q.id # id
                NotE(x) == x.key # id
            IN [acc EXCEPT
                  !.secs[e.sec] =
                    IF e.is_core
                      THEN [@ EXCEPT !.core_questions = ListOf(SelectSeq(@.v, Keep))]
                      ELSE [@ EXCEPT !.conditional_questions = SelectSeq(@, Keep)],
                  !.entries = SelectSeq(@, NotE),
                  !.names = [n \in (DOMAIN @) \ {var_name_to_remove} |-> @[n]]]

RECURSIVE RemoveQuestions(_, _)
RemoveQuestions(acc, removed) ==
  IF removed = <<>> THEN acc
  ELSE RemoveQuestions(RemoveQuestion(acc, Head(removed)), Tail(removed))

\* variant that collects the names of the core questions only
all_existing_q_vars_in_questionnaire_CoreOnly(secs) ==
  UNION {{q.variable_name : q \in Range(GetOrEmpty(secs[i].core_questions))} :
           i \in DOMAIN secs} \ {NoName}

\* lines 703-710: the variable names of the questions of the sections
all_existing_q_vars_in_questionnaire(secs) ==
  {q.variable_name : q \in Range(AllQuestions(secs))} \ {NoName}

\* the question with the tag t replaced by f
ReplaceTagged(secs, t, f) ==
  [i \in DOMAIN secs |->
     [secs[i] EXCEPT
        !.core_questions = ListOf([j \in DOMAIN @.v |-> IF @.v[j].tag = t THEN f ELSE @.v[j]]),
        !.conditional_questions = [j \in DOMAIN @ |-> IF @[j].tag = t THEN f ELSE @[j]]]]

TaggedQuestion(secs, t) ==
  CHOOSE q \in Range(AllQuestions(secs)) : q.tag = t

\* acc after the question with the tag was processed again
StoreUpdated(acc, tag, p, fresh) ==
  [acc EXCEPT
     !.secs = ReplaceTagged(@, tag, Tagged(p.question, tag)),
     !.errors = @ \o p.errors,
     !.draws = Tail(@),
     !.fresh = @ /\ fresh]

\* lines 785-790: the question takes the marker and the fields of the update
UpdatedFields(q_obj, updated_q_data) ==
  MapUpdate(MapUpdate(q_obj,
                      [k \in {"original_variable_name_before_update"} |->
                         q_obj.variable_name]),
            updated_q_data.set)

\* lines 782-798: the question of the entry e is updated and processed again
UpdateEntry(acc, updated_q_data, project_id, e, updated) ==
  StoreUpdated(acc, e.tag,
    process_question_properties(
      updated, e.is_core,
      all_existing_q_vars_in_questionnaire(ReplaceTagged(acc.secs, e.tag, updated)),
      Head(acc.draws), project_id),
    FreshSuffix(updated,
                all_existing_q_vars_in_questionnaire(ReplaceTagged(acc.secs, e.tag, updated)),
                Head(acc.draws)))

\* lines 774-808: the first entry whose id ends with _<base id> has its
\* question updated
UpdateQuestion(acc, updated_q_data, project_id) ==
  LET hit == {k \in DOMAIN acc.entries :
                EndsWith(acc.entries[k].key, <<"_">> \o updated_q_data.id)}
      e == acc.entries[CHOOSE k \in hit : \A j \in hit : k <= j]
  IN IF updated_q_data.id = NoName \/ hit = {} THEN [acc EXCEPT !.draws = Tail(@)]
     ELSE UpdateEntry(acc, updated_q_data, project_id, e,
                      UpdatedFields(TaggedQuestion(acc.secs, e.tag), updated_q_data))

RECURSIVE UpdateQuestions(_, _, _)
UpdateQuestions(acc, updates, project_id) ==
  IF updates = <<>> THEN acc
  ELSE UpdateQuestions(UpdateQuestion(acc, Head(updates), project_id), Tail(updates),
                       project_id)

\* line 830: f"{project_id}_{str(uuid.uuid4())}"
RegeneratedId(project_id, uuid) ==
  (IF project_id = None THEN <<"N", "o", "n", "e">> ELSE project_id[1]) \o <<"_">> \o uuid

\* lines 833-842: the processed question p is appended to the section at
\* index i and entered in all_questions_map
StoreAdded(acc, add_q_data, i, p, errors, fresh) ==
  [acc EXCEPT
     !.secs[i] =
       IF add_q_data.is_core
         THEN [@ EXCEPT !.core_questions = ListOf(Append(@.v, Tagged(p.question, 0)))]
         ELSE [@ EXCEPT !.conditional_questions = Append(@, Tagged(p.question, 0))],
     !.entries = IF \E k \in DOMAIN @ : @[k].key = p.question.id THEN @
                 ELSE Append(@, [key |-> p.question.id, tag |-> 0,
                                 name |-> p.question.variable_name,
                                 sec |-> i, is_core |-> add_q_data.is_core]),
     !.existing = p.all_existing_q_vars,
     !.errors = @ \o errors \o p.errors,
     !.draws = Tail(Tail(@)),
     !.fresh = @ /\ fresh]

\* lines 830-831: the question processed once gets a new id and is
\* processed again
Regenerated(add_q_data, p1, project_id, d2) ==
  MapUpdate([p1.question EXCEPT !.id = RegeneratedId(project_id, d2.uuid)],
            [k \in {"original_variable_name_before_update"} |->
               add_q_data.question.original_variable_name_before_update])

\* lines 826-842 for the question processed once (p1)
AddProcessed(acc, add_q_data, i, p1, project_id) ==
  IF \E k \in DOMAIN acc.entries : acc.entries[k].key = p1.question.id
    THEN StoreAdded(acc, add_q_data, i,
           process_question_properties(Regenerated(add_q_data, p1, project_id, acc.draws[2]),
                                       add_q_data.is_core, p1.all_existing_q_vars,
                                       acc.draws[2], project_id),
           p1.errors,
           /\ FreshSuffix(add_q_data.question, acc.existing, acc.draws[1])
           /\ FreshSuffix(Regenerated(add_q_data, p1, project_id, acc.draws[2]),
                          p1.all_existing_q_vars, acc.draws[2]))
    ELSE StoreAdded(acc, add_q_data, i, p1, <<>>,
                    FreshSuffix(add_q_data.question, acc.existing, acc.draws[1]))

\* lines 815-847: one added question; it is processed, processed again with
\* a new id when its id is a key of all_questions_map, and appended to the
\* list of the first section with the given order; it uses two draws
AddQuestion(acc, add_q_data, project_id) ==
  LET hit == {i \in DOMAIN acc.secs : acc.secs[i].order = add_q_data.section_order}
  IN IF add_q_data.section_order = 0 \/ hit = {}
       THEN [acc EXCEPT !.draws = Tail(Tail(@))]
     ELSE AddProcessed(acc, add_q_data, CHOOSE i \in hit : \A j \in hit : i <= j,
            process_question_properties(add_q_data.question, add_q_data.is_core,
                                        acc.existing, acc.draws[1], project_id),
            project_id)

RECURSIVE AddQuestions(_, _, _)
AddQuestions(acc, added, project_id) ==
  IF added = <<>> THEN acc
  ELSE AddQuestions(AddQuestion(acc, Head(added), project_id), Tail(added), project_id)

\* line 738: the sections are sorted when sections were added
SortedWhenAdded(acc, added_sections) ==
  IF added_sections = <<>> THEN acc ELSE [acc EXCEPT !.secs = SortByOrder(@)]

\* lines 691-738: the section-level changes of a modification
modify_sections(secs, modifications, draws) ==
  SortedWhenAdded(
    AddSections(
      UpdateSections([secs |-> RemoveSections(secs, modifications.removed_section_orders),
                      errors |-> <<>>, draws |-> draws],
                     modifications.updated_sections),
      modifications.added_sections),
    modifications.added_sections)

\* lines 741-752: the maps as they are built
QuestionMaps(tagged, entries) ==
  [secs |-> tagged, entries |-> entries,
   names |-> question_varname_to_prefixed_id_map(entries)]

\* lines 741-771: the maps are built and the named questions removed
remove_questions(secs, modifications) ==
  RemoveQuestions(QuestionMaps(TagSections(secs), all_questions_map(TagSections(secs))),
                  modifications.removed_question_variable_names)

\* line 813: existing_q_vars_for_additions
StartAdditions(updated) ==
  [secs |-> updated.secs, entries |-> updated.entries,
   existing |-> all_existing_q_vars_in_questionnaire(updated.secs),
   errors |-> updated.errors, draws |-> updated.draws, fresh |-> updated.fresh]

\* line 849: modified_sections as it is stored
ModifiedSections(added) ==
  [secs |-> UntagSections(added.secs), errors |-> added.errors, fresh |-> added.fresh]

\* lines 774-847: the question updates, then the question additions
modify_questions(removed, modifications, draws, project_id) ==
  ModifiedSections(
    AddQuestions(
      StartAdditions(
        UpdateQuestions([secs |-> removed.secs, entries |-> removed.entries,
                         errors |-> <<>>, draws |-> draws, fresh |-> TRUE],
                        modifications.updated_questions, project_id)),
      modifications.added_questions, project_id))

\* the draws the section-level changes can consume, in the order of use
SectionDrawSets(secs, modifications) ==
  LET kept == RemoveSections(secs, modifications.removed_section_orders)
      Merged(u) ==
        LET hit == {i \in DOMAIN kept : kept[i].order = u.order}
        IN IF hit = {} THEN {DefaultDraw}
           ELSE SectionDraws(MapUpdate(kept[CHOOSE i \in hit : \A j \in hit : i <= j], u))
  IN [i \in DOMAIN modifications.updated_sections |->
        Merged(modifications.updated_sections[i])]
     \o [i \in DOMAIN modifications.added_sections |->
           SectionDraws(modifications.added_sections[i])]

\* the draws one question update can consume
UpdateDraws(removed, u) ==
  LET hit == {k \in DOMAIN removed.entries :
                EndsWith(removed.entries[k].key, <<"_">> \o u.id)}
  IN IF u.id = NoName \/ hit = {} THEN {DefaultDraw}
     ELSE LET e == removed.entries[CHOOSE k \in hit : \A j \in hit : k <= j]
              merged == MapUpdate(TaggedQuestion(removed.secs, e.tag), u.set)
          IN {d \in QuestionDraws(merged, e.is_core) :
                "variable_name" \notin DOMAIN u.set => d.hex4 = DefaultDraw.hex4}

\* the draws one question addition can consume: the second one is for the
\* pass after an id collision
AddDraws(removed, a, project_id) ==
  LET collides == \E k \in DOMAIN removed.entries :
                    removed.entries[k].key = PrefixedId(a.question.id, project_id)
  IN IF a.section_order = 0 THEN <<{DefaultDraw}, {DefaultDraw}>>
     ELSE <<QuestionDraws(a.question, a.is_core),
            {d \in QuestDraws :
               /\ d.formula = NoAnswer /\ d.criteria = NoAnswer
               /\ ~collides => d.hex4 = DefaultDraw.hex4}>>

RECURSIVE AllAddDraws(_, _, _)
AllAddDraws(removed, added, project_id) ==
  IF added = <<>> THEN <<>>
  ELSE AddDraws(removed, Head(added), project_id)
       \o AllAddDraws(removed, Tail(added), project_id)

\* the draws the question-level changes can consume, in the order of use
QuestionDrawSets(removed, modifications, project_id) ==
  [i \in DOMAIN modifications.updated_questions |->
     UpdateDraws(removed, modifications.updated_questions[i])]
  \o AllAddDraws(removed, modifications.added_questions, project_id)

\* lines 849-850: the questionnaire with its calculation map made a dict
\* (lines 685-686) and the changed sections is stored; m and q are the
\* outcomes of the section-level and of the question-level changes
StoreModified(s, m, q) ==
  [state |-> [s EXCEPT !.error = IF m.errors \o q.errors = <<>> THEN s.error
                                 ELSE Some(ErrorMessages(s.error) \o m.errors \o q.errors),
                       !.questionnaire =
                         Some([sections |-> q.secs,
                               assessment_variable_calculation |-> Some(CalcMap(s))])],
   raised |-> FALSE, errors |-> m.errors \o q.errors, fresh |-> q.fresh]

ModifiedQuestions(s, answer, m, question_draws) ==
  StoreModified(s, m,
                modify_questions(remove_questions(m.secs, answer.v), answer.v,
                                 question_draws, s.project_id))

\* lines 673-859: the snapshot modify_questionnaire_llm leaves when the
\* service answers the modifications answer.v
modify_questionnaire_llm(s, answer, section_draws, question_draws) ==
  IF answer.kind = "raise"
    THEN [state |-> WithError(s, ErrorAppend(s.error, "Error modifying questionnaire with LLM")),
          raised |-> TRUE, errors |-> <<>>, fresh |-> TRUE]
  ELSE ModifiedQuestions(s, answer, modify_sections(Sections(s), answer.v, section_draws),
                         question_draws)

\* ------------------------------------------------------ bounded answers
\* a question as the service returns it
RawQuestion(id, name, formula, criteria) ==
  [Item(id, name, NoName, formula, ListOf(<<VarA>>)) EXCEPT !.triggering_criteria = criteria]

\* a section as the service returns it
RawSection(order, mandatory, criteria, core, cond) ==
  [Section(order, mandatory, core, cond) EXCEPT !.triggering_criteria = criteria]

NormC == NormalizeVariableName(RawQC)

RawQA == <<"Q", "-", "a">>
RawQB == <<"Q", " ", "b">>

\* the questionnaires the service generates
GenOne ==
  [sections |-> <<RawSection(1, TRUE, "null",
                             ListOf(<<RawQuestion(<<"1">>, RawQA, "expr", "null")>>), <<>>)>>,
   assessment_variable_calculation |-> Some([k \in {VarA} |-> FormulaResolved])]

GenTwo ==
  [sections |->
     <<RawSection(0, TRUE, "expr",
                  ListOf(<<RawQuestion(<<"1">>, RawQC, "expr", "null")>>), <<>>),
       RawSection(0, FALSE, "null",
                  ListOf(<<RawQuestion(<<"2">>, QA, "expr", "expr")>>),
                  <<RawQuestion(<<"3">>, RawQA, "expr", "expr")>>)>>,
   assessment_variable_calculation |-> None]

GenConditional ==
  [sections |->
     <<RawSection(1, TRUE, "null",
                  ListOf(<<RawQuestion(<<"1">>, RawQA, "expr", "null")>>),
                  <<RawQuestion(<<"2">>, RawQB, "return true;", "")>>)>>,
   assessment_variable_calculation |-> Some([k \in {VarA} |-> FormulaDangling])]

GenNullCore ==
  [sections |-> <<RawSection(1, TRUE, "null", NullList, <<>>)>>,
   assessment_variable_calculation |-> None]

GenUnnamed ==
  [sections |->
     <<RawSection(1, TRUE, "null", MissingList,
                  <<RawQuestion(NoName, NoName, "expr", "expr")>>)>>,
   assessment_variable_calculation |-> Some([k \in {VarA} |-> None])]

\* one question whose variable_name is in normal form already
GenNormalized ==
  [sections |-> <<RawSection(1, TRUE, "null",
                             ListOf(<<RawQuestion(<<"1">>, QA, "expr", "null")>>), <<>>)>>,
   assessment_variable_calculation |-> Some([k \in {VarA} |-> FormulaResolved])]

QuestionnaireAnswers ==
  {Raise, Answer(GenOne), Answer(GenTwo), Answer(GenConditional), Answer(GenNullCore),
   Answer(GenUnnamed), Answer(GenNormalized)}

\* QuestionnaireModificationsOutput (src/schemas.py); the sections a
\* modification adds or updates carry no questions of their own
NoModification ==
  [removed_section_orders |-> <<>>, updated_sections |-> <<>>, added_sections |-> <<>>,
   removed_question_variable_names |-> <<>>, updated_questions |-> <<>>,
   added_questions |-> <<>>]

AddedQuestion(section_order, is_core, question) ==
  [section_order |-> section_order, is_core |-> is_core, question |-> question]

QuestionModification(id, set) == [id |-> id, set |-> set]

QuestionnaireModifications ==
  {[NoModification EXCEPT
      !.removed_section_orders = <<1>>,
      !.added_sections = <<RawSection(5, TRUE, "null", ListOf(<<>>), <<>>)>>],
   [NoModification EXCEPT
      !.removed_section_orders = <<1>>,
      !.added_sections = <<RawSection(1, FALSE, "expr", MissingList, <<>>)>>],
   [NoModification EXCEPT
      !.updated_sections = <<[order |-> 1, is_mandatory |-> FALSE,
                              triggering_criteria |-> "null"]>>],
   [NoModification EXCEPT
      !.added_sections = <<RawSection(0, FALSE, "", ListOf(<<>>), <<>>)>>,
      !.updated_sections = <<[order |-> 7, title |-> "Renamed"]>>],
   [NoModification EXCEPT !.removed_question_variable_names = <<NormC, QB>>],
   [NoModification EXCEPT
      !.updated_questions = <<QuestionModification(<<"2">>, [variable_name |-> RawQC])>>],
   [NoModification EXCEPT
      !.updated_questions = <<QuestionModification(<<"3">>, [triggering_criteria |-> ""]),
                              QuestionModification(<<"9">>, [formula |-> "expr"])>>],
   [NoModification EXCEPT
      !.added_questions =
        <<AddedQuestion(1, TRUE, RawQuestion(<<"1">>, RawQC, "expr", "null")),
          AddedQuestion(0, TRUE, RawQuestion(<<"5">>, QB, "expr", "null"))>>],
   [NoModification EXCEPT
      !.added_questions =
        <<AddedQuestion(2, FALSE, RawQuestion(<<"6">>, QB, "expr", "null")),
          AddedQuestion(1, TRUE, RawQuestion(NoName, QB, "null", "null"))>>],
   [NoModification EXCEPT
      !.removed_section_orders = <<1>>,
      !.updated_sections = <<[order |-> 2, title |-> "Renamed"]>>,
      !.added_questions =
        <<AddedQuestion(2, TRUE, RawQuestion(<<"7">>, QB, "expr", "null"))>>]}

QuestionnaireModificationAnswers ==
  {Raise} \cup {Answer(m) : m \in QuestionnaireModifications}

\* lines 1069-1127: the call that applied the dict response, r being what
\* applying it leaves
RemediatedCall(st, order, resp, r) ==
  [state |-> r.state, ret |-> "returned",
   loc |-> [PassLocals(st, order, resp) EXCEPT
              !.case = r.case, !.index = r.index, !.appended = r.appended]]

\* lines 903-1140: one call of analyze_questionnaire_impact on the snapshot
\* st, the placeholders appended in the given order, the remediation request
\* answered by resp
analyze_questionnaire_impact(st, order, resp, draws) ==
  LET s == Entered(st) IN
  IF NothingToAnalyze(s)
    THEN [state |-> s, ret |-> "returned", loc |-> [NoLocals EXCEPT !.trace = <<"Entry">>]]
  ELSE IF ScanRaises(s, order)
    THEN [state |-> IF QuestionLoopRaises(Sections(s)) THEN s
                    ELSE WithAvs(s, AddPlaceholders(Avs(s), order)),
          ret |-> "raised", loc |-> [NoLocals EXCEPT !.trace = <<"Scanning">>]]
  ELSE IF ~RequestIssued(st, order)
    THEN IF PassScan(st, order).vars_to_address = {}
           THEN [state |-> WithError(WithAvs(s, PassScan(st, order).avs), None),
                 ret |-> "returned",
                 loc |-> ScanLocals(PassScan(st, order), <<"Scanning", "Clean">>)]
           ELSE [state |-> PassFlagged(st, order), ret |-> "returned",
                 loc |-> ScanLocals(PassScan(st, order), <<"Scanning", "NeedsRemediation">>)]
  ELSE IF resp.kind = "raise"
    THEN [state |-> WithError(PassFlagged(st, order),
                      ErrorAppend(PassFlagged(st, order).error,
                                  "Error during questionnaire impact remediation")),
          ret |-> "returned", loc |-> PassLocals(st, order, resp)]
  ELSE IF ~ResponseIsDict(resp)
    THEN [state |-> format_error(PassFlagged(st, order)), ret |-> "returned",
          loc |-> PassLocals(st, order, resp)]
  ELSE RemediatedCall(st, order, resp, Remediated(PassFlagged(st, order), resp, draws))

\* whether the call on st reaches the remediation request
ReachesRequest(st, order) == PassCompletesScan(st, order) /\ RequestIssued(st, order)

\* the answers to the remediation request: at most one added question
RemediationAnswers ==
  {r \in Responses :
     /\ Len(r.added_questions) <= 1
     /\ r.updated_assessment_variable_calculation.k = "dict"}

\* -------------------------------------- the questionnaire workflow's calls
\* state is a snapshot with a project id, its assessment variables and no
\* questionnaire yet; loc holds the locals of the last call.  The calls
\* follow the edges of the workflow graph: generate_questionnaire, then
\* analyze_questionnaire_impact, then modify_questionnaire_llm and
\* analyze_questionnaire_impact in turn.
QuestInit ==
  /\ state \in [error : {None}, project_id : {Some(ProjectP)},
                assessment_variables :
                  {Some(<<>>), Some(<<Variable(VarA)>>),
                   Some(<<Variable(VarA), Variable(VarGhost)>>)},
                questionnaire : {None}]
  /\ pre = state
  /\ ret = "ready"
  /\ loc = NoLocals
  /\ calls = 1

QuestLocals(op, answer, r) ==
  [op |-> op, answer |-> answer, raised |-> r.raised, errors |-> r.errors,
   fresh |-> r.fresh]

\* the last call was one of analyze_questionnaire_impact
Analyzed == "op" \notin DOMAIN loc

\* lines 552-555: without assessment variables nothing is generated
GenerateWithoutVariables ==
  /\ ret = "ready"
  /\ calls = 1
  /\ Avs(state) = <<>>
  /\ pre' = state
  /\ state' = WithError(state, ErrorAppend(state.error, "No assessment variables found"))
  /\ ret' = "returned"
  /\ loc' = [op |-> "generate_questionnaire", answer |-> Raise, raised |-> FALSE,
             errors |-> <<>>, fresh |-> TRUE]
  /\ UNCHANGED calls

\* lines 594-634: the request, or the processing of its answer, raises
GenerateQuestionnaireRaises ==
  /\ ret = "ready"
  /\ calls = 1
  /\ Avs(state) # <<>>
  /\ \E answer \in QuestionnaireAnswers :
       /\ GenerationRaises(answer)
       /\ \E r \in {generate_questionnaire(state, answer, <<>>)} :
            /\ state' = r.state
            /\ loc' = QuestLocals("generate_questionnaire", answer, r)
  /\ pre' = state
  /\ ret' = "returned"
  /\ UNCHANGED calls

\* lines 594-627: the generated questionnaire is processed and stored
GenerateQuestionnaireStores ==
  /\ ret = "ready"
  /\ calls = 1
  /\ Avs(state) # <<>>
  /\ \E answer \in QuestionnaireAnswers :
       /\ ~GenerationRaises(answer)
       /\ \E draws \in DrawProduct(GenerateDrawSets(answer.v.sections)) :
            \E r \in {generate_questionnaire(state, answer, draws)} :
              /\ state' = r.state
              /\ loc' = QuestLocals("generate_questionnaire", answer, r)
  /\ pre' = state
  /\ ret' = "returned"
  /\ UNCHANGED calls

\* lines 652-654: no modification prompt or no questionnaire
ModifyQuestionnaireSkipped ==
  /\ ret = "ready"
  /\ calls > 1
  /\ Analyzed
  /\ pre' = state
  /\ state' = state
  /\ ret' = "returned"
  /\ loc' = [op |-> "modify_questionnaire_llm", answer |-> Raise, raised |-> FALSE,
             errors |-> <<>>, fresh |-> TRUE]
  /\ UNCHANGED calls

\* lines 853-857: the modification request raises
ModifyQuestionnaireRaises ==
  /\ ret = "ready"
  /\ calls > 1
  /\ Analyzed
  /\ state.questionnaire # None
  /\ \E r \in {modify_questionnaire_llm(state, Raise, <<>>, <<>>)} :
       /\ state' = r.state
       /\ loc' = QuestLocals("modify_questionnaire_llm", Raise, r)
  /\ pre' = state
  /\ ret' = "returned"
  /\ UNCHANGED calls

\* lines 680-851: the modifications are applied and the questionnaire stored
ModifyQuestionnaireApplied ==
  /\ ret = "ready"
  /\ calls > 1
  /\ Analyzed
  /\ state.questionnaire # None
  /\ \E answer \in QuestionnaireModificationAnswers :
       /\ answer.kind # "raise"
       /\ \E section_draws \in DrawProduct(SectionDrawSets(Sections(state), answer.v)) :
            \E removed \in {remove_questions(
                              modify_sections(Sections(state), answer.v, section_draws).secs,
                              answer.v)} :
              \E question_draws \in
                   DrawProduct(QuestionDrawSets(removed, answer.v, state.project_id)) :
                \E r \in {modify_questionnaire_llm(state, answer, section_draws,
                                                   question_draws)} :
                  /\ state' = r.state
                  /\ loc' = QuestLocals("modify_questionnaire_llm", answer, r)
  /\ pre' = state
  /\ ret' = "returned"
  /\ UNCHANGED calls

\* analyze_questionnaire_impact returns without a remediation request, or
\* raises while scanning
AnalyzeWithoutRequest ==
  /\ ret = "ready"
  /\ ~Analyzed
  /\ \E order \in PlaceholderOrders(state) :
       /\ ~ReachesRequest(state, order)
       /\ \E r \in {analyze_questionnaire_impact(state, order, NoResponse, <<>>)} :
            /\ state' = r.state
            /\ ret' = r.ret
            /\ loc' = r.loc
  /\ pre' = state
  /\ UNCHANGED calls

\* analyze_questionnaire_impact issues the remediation request
AnalyzeWithRequest ==
  /\ ret = "ready"
  /\ ~Analyzed
  /\ \E order \in PlaceholderOrders(state) :
       /\ ReachesRequest(state, order)
       /\ \E resp \in RemediationAnswers :
            \E draws \in DrawsFor(resp.added_questions, Sections(state)) :
              \E r \in {analyze_questionnaire_impact(state, order, resp, draws)} :
                /\ state' = r.state
                /\ ret' = r.ret
                /\ loc' = r.loc
  /\ pre' = state
  /\ UNCHANGED calls

\* the workflow calls the next node on the snapshot
QuestNextCall ==
  /\ ret \in {"returned", "raised"}
  /\ calls < MaxCalls
  /\ ret' = "ready"
  /\ calls' = calls + 1
  /\ UNCHANGED <<state, pre, loc>>

QuestNext ==
  \/ GenerateWithoutVariables
  \/ GenerateQuestionnaireRaises
  \/ GenerateQuestionnaireStores
  \/ ModifyQuestionnaireSkipped
  \/ ModifyQuestionnaireRaises
  \/ ModifyQuestionnaireApplied
  \/ AnalyzeWithoutRequest
  \/ AnalyzeWithRequest
  \/ QuestNextCall

QuestSpec == QuestInit /\ [][QuestNext]_vars

\* ------------------------------------------------- dependency analysis
\* parse_formula_dependencies, determine_impact_level and
\* analyze_variable_dependencies, as sections 4.1 to 4.4 of the design
\* describe them.  A formula is the sequence of its characters; a null
\* formula and the empty one are the same sequence.

MaxDecisionVariables == 2

RawA == <<"a">>
RawB == <<"b">>
RawC == <<"c">>
RawNames == {RawA, RawB, RawC}

FormulaEmpty == <<>>
FormulaSpaces == <<" ", " ">>
FormulaConstant == <<"r", "e", "t", "u", "r", "n", " ", "5", ";">>
FormulaDouble == <<"r", "e", "t", "u", "r", "n", " ", "a", " ", "*", " ", "2", ";">>
FormulaPlusOne == <<"a", "_", "p", "l", "u", "s", "_", "o", "n", "e">>
FormulaSum == <<"r", "e", "t", "u", "r", "n", " ", "a", "+", "b", ";">>
FormulaQuestion == <<"q", "_", "b", " ", "+", " ", "a", "b">>

DependencyFormulas ==
  {FormulaEmpty, FormulaSpaces, FormulaConstant, FormulaDouble, FormulaPlusOne,
   FormulaSum, FormulaQuestion}

\* the characters that are not part of an identifier
IsIdentChar(c) == c \notin {" ", "*", "+", ";"}

\* the length of the identifier e starts with
IdentLen(e) ==
  CHOOSE n \in 1..Len(e) :
    /\ \A i \in 1..n : IsIdentChar(e[i])
    /\ n = Len(e) \/ ~IsIdentChar(e[n + 1])

\* section 4.1: the identifier tokens of an expression, by word boundaries
RECURSIVE Tokens(_)
Tokens(e) ==
  IF e = <<>> THEN <<>>
  ELSE IF ~IsIdentChar(Head(e)) THEN Tokens(Tail(e))
  ELSE <<SubSeq(e, 1, IdentLen(e))>> \o Tokens(SubSeq(e, IdentLen(e) + 1, Len(e)))

\* variant that looks for the names anywhere in the text
parse_formula_dependencies_Substring(formula, known_names) ==
  {n \in known_names :
     \E i \in 1..Len(formula), j \in 1..Len(formula) : SubSeq(formula, i, j) = n}

\* section 4.1: the known names that are a token of the expression, or the
\* suffix of a token q_<suffix>
parse_formula_dependencies(formula, known_names) ==
  {n \in known_names :
     \/ n \in Range(Tokens(formula))
     \/ (<<"q", "_">> \o n) \in Range(Tokens(formula))}

\* str.strip() leaves nothing
IsBlank(formula) == \A i \in DOMAIN formula : formula[i] = " "

\* t in s
Contains(s, t) ==
  \E i \in 1..(Len(s) - Len(t) + 1) : SubSeq(s, i, i + Len(t) - 1) = t

ControlFlowKeywords ==
  {<<"r", "e", "t", "u", "r", "n">>, <<"i", "f">>, <<"w", "h", "i", "l", "e">>, <<"f", "o", "r">>}

HasControlFlow(formula) == \E k \in ControlFlowKeywords : Contains(formula, k)

\* variant that takes every single dependency for load-bearing
determine_impact_level_SingleCritical(dependencies, formula) ==
  IF dependencies = {} THEN (IF IsBlank(formula) THEN "low" ELSE "critical")
  ELSE IF Cardinality(dependencies) = 1 THEN "critical"
  ELSE "moderate"

\* section 4.3: the policy of the classifier
determine_impact_level(dependencies, formula) ==
  IF dependencies = {} THEN (IF IsBlank(formula) THEN "low" ELSE "critical")
  ELSE IF Cardinality(dependencies) = 1
    THEN (IF HasControlFlow(formula) THEN "critical" ELSE "moderate")
  ELSE "moderate"

\* section 4.2: the DependencyInfo of one decision variable
DependencyInfo(dv, known_names) ==
  [var_name |-> dv.var_name,
   depends_on |-> parse_formula_dependencies(dv.formula, known_names),
   formula |-> dv.formula,
   impact_level |->
     determine_impact_level(parse_formula_dependencies(dv.formula, known_names),
                            dv.formula)]

\* the var_names of the raw indicators, in input order
IndicatorNames(raw_indicators) ==
  [i \in DOMAIN raw_indicators |-> raw_indicators[i].var_name]

\* the names of the DependencyInfos that satisfy Test, in order
NamesWhere(infos, Test(_)) ==
  LET hits == SelectSeq(infos, Test) IN [i \in DOMAIN hits |-> hits[i].var_name]

\* variant that takes a raw indicator for orphaned unless the first decision
\* variable depends on it
orphaned_variables_FirstOnly(names, infos) ==
  LET Orphaned(n) == infos = <<>> \/ n \notin infos[1].depends_on
  IN SelectSeq(names, Orphaned)

\* section 4.4: the raw indicators no decision variable depends on
orphaned_variables(names, infos) ==
  LET Orphaned(n) == \A i \in DOMAIN infos : n \notin infos[i].depends_on
  IN SelectSeq(names, Orphaned)

\* variant that reports every decision variable without dependencies as
\* breaking, whatever its formula
DependencyGraph_AnyFormula(names, infos) ==
  LET Breaking(info) == info.depends_on = {}
      Fragile(info) == Cardinality(info.depends_on) = 1 /\ info.impact_level = "critical"
  IN [raw_indicators |-> names,
      decision_variables |-> infos,
      impact_analysis |->
        [breaking_changes |-> NamesWhere(infos, Breaking),
         required_updates |-> NamesWhere(infos, Fragile),
         orphaned_variables |-> orphaned_variables(names, infos)]]

\* section 4.4: the DependencyGraph
DependencyGraph(names, infos) ==
  LET Breaking(info) == ~IsBlank(info.formula) /\ info.depends_on = {}
      Fragile(info) == Cardinality(info.depends_on) = 1 /\ info.impact_level = "critical"
  IN [raw_indicators |-> names,
      decision_variables |-> infos,
      impact_analysis |->
        [breaking_changes |-> NamesWhere(infos, Breaking),
         required_updates |-> NamesWhere(infos, Fragile),
         orphaned_variables |-> orphaned_variables(names, infos)]]

analyze_variable_dependencies(raw_indicators, decision_variables) ==
  DependencyGraph(
    IndicatorNames(raw_indicators),
    [i \in DOMAIN decision_variables |->
       DependencyInfo(decision_variables[i], Range(IndicatorNames(raw_indicators)))])

\* the inputs: raw indicators with distinct var_names, decision variables
\* d1, d2, ... with a formula each
RawIndicatorLists ==
  {<<>>, <<RawA>>, <<RawA, RawB>>, <<RawB, RawA>>, <<RawA, RawB, RawC>>}

DecisionVariableLists ==
  UNION {{[i \in 1..n |-> [var_name |-> <<"d", i>>, formula |-> f[i]]] :
            f \in [1..n -> DependencyFormulas]} : n \in 0..MaxDecisionVariables}

\* state holds the request's raw_indicators and decision_variables, loc the
\* outcome of the last call
DepInit ==
  /\ state \in [raw_indicators :
                  {[i \in DOMAIN l |-> [var_name |-> l[i]]] : l \in RawIndicatorLists},
                decision_variables : DecisionVariableLists]
  /\ pre = state
  /\ ret = "ready"
  /\ loc = [op |-> "none"]
  /\ calls = 1

\* src/main.py 729-762: determine_impact_level on dependencies and a formula
DetermineImpactLevel ==
  /\ ret = "ready"
  /\ \E dependencies \in SUBSET RawNames, formula \in DependencyFormulas :
       loc' = [op |-> "determine_impact_level", dependencies |-> dependencies,
               formula |-> formula,
               impact_level |-> determine_impact_level(dependencies, formula)]
  /\ ret' = "returned"
  /\ UNCHANGED <<state, pre, calls>>

\* src/api.py 316-317 and 328-330: with neither list the request is refused;
\* the HTTPException raised inside the try block is caught and raised again
\* with status 500
AnalyzeDependenciesRefused ==
  /\ ret = "ready"
  /\ state.raw_indicators = <<>> /\ state.decision_variables = <<>>
  /\ loc' = [op |-> "analyze_dependencies", status |-> 500]
  /\ ret' = "raised"
  /\ UNCHANGED <<state, pre, calls>>

\* src/api.py 320-326: the dependency graph is returned
AnalyzeDependenciesReturns ==
  /\ ret = "ready"
  /\ ~(state.raw_indicators = <<>> /\ state.decision_variables = <<>>)
  /\ loc' = [op |-> "analyze_dependencies", status |-> 200,
             dependency_graph |->
               analyze_variable_dependencies(state.raw_indicators,
                                             state.decision_variables)]
  /\ ret' = "returned"
  /\ UNCHANGED <<state, pre, calls>>

\* src/main.py 700-727: parse_formula_dependencies on a formula and the names
\* of the raw indicators
ParseFormulaDependencies ==
  /\ ret = "ready"
  /\ \E formula \in DependencyFormulas, raw_indicator_list \in SUBSET RawNames :
       loc' = [op |-> "parse_formula_dependencies", formula |-> formula,
               raw_indicator_list |-> raw_indicator_list,
               dependencies |-> parse_formula_dependencies(formula, raw_indicator_list)]
  /\ ret' = "returned"
  /\ UNCHANGED <<state, pre, calls>>

DepNext ==
  \/ DetermineImpactLevel
  \/ ParseFormulaDependencies
  \/ AnalyzeDependenciesRefused
  \/ AnalyzeDependenciesReturns

DepSpec == DepInit /\ [][DepNext]_vars

\* ------------------------------------------------------ the workflow graph
\* The graph of create_workflow (src/main.py 42-92), run from its entry
\* point on an initial snapshot.  The snapshot is reduced to what the nodes'
\* early returns and the two conditional edges read: modification_prompt,
\* whether assessment variables and a questionnaire are there, and whether
\* error holds a text.  loc holds the node to run next and the number of
\* node executions so far, counted up to MaxExecuted.

MaxExecuted == 8

\* a prompt the conditional edges take for true
Truthy(modification_prompt) ==
  modification_prompt # None /\ modification_prompt # Some("")

\* src/main.py 65-72: the edge after analyze_dependencies
route_after_dependencies(s) ==
  IF Truthy(s.modification_prompt) THEN "modify_variables_intelligent"
  ELSE "generate_questionnaire"

\* src/main.py 83-90: the edge after analyze_questionnaire_impact
route_after_impact(s) ==
  IF Truthy(s.modification_prompt) THEN "modify_questionnaire" ELSE "END"

Executed(n) == IF n < MaxExecuted THEN n + 1 ELSE MaxExecuted

\* src/main.py 118-128 and 188-198: the snapshot handed to invoke
FlowInit ==
  /\ state \in [modification_prompt : {None, Some(""), Some("edit")},
                assessment_variables : {"null", "empty", "some"},
                questionnaire : {"null"},
                error : {"null"}]
  /\ pre = state
  /\ ret = "ready"
  /\ loc = [node |-> "generate_variables", executed |-> 0]
  /\ calls = 1

\* the node has run and the graph goes on to the node next
FlowStep(s, next) ==
  /\ state' = s
  /\ pre' = state
  /\ loc' = [node |-> next, executed |-> Executed(loc.executed)]
  /\ ret' = IF next = "END" THEN "returned" ELSE "ready"
  /\ UNCHANGED calls

\* src/nodes.py 264-354: variables are generated where there are none, or a
\* request raises and the error is recorded
GenerateVariablesNode ==
  /\ loc.node = "generate_variables"
  /\ \E raised \in BOOLEAN, generated \in {"empty", "some"} :
       FlowStep([state EXCEPT
                   !.assessment_variables =
                     IF raised \/ state.assessment_variables = "some" THEN @
                     ELSE generated,
                   !.error = IF raised THEN "text" ELSE @],
                "analyze_dependencies")

\* analyze_variable_dependencies_node computes the dependency graph (section
\* 4.4); the edge after it reads modification_prompt
AnalyzeDependenciesNode ==
  /\ loc.node = "analyze_dependencies"
  /\ FlowStep(state, route_after_dependencies(state))

\* modify_variables_intelligent changes the variables or records an error;
\* the design does not say whether it leaves modification_prompt or clears
\* it, and either may happen
ModifyVariablesIntelligentNode ==
  /\ loc.node = "modify_variables_intelligent"
  /\ \E raised \in BOOLEAN, modified \in {"empty", "some"}, cleared \in BOOLEAN :
       FlowStep([state EXCEPT
                   !.assessment_variables = IF raised THEN @ ELSE modified,
                   !.error = IF raised THEN "text" ELSE @,
                   !.modification_prompt = IF cleared THEN None ELSE @],
                "analyze_dependencies")

\* src/nodes.py 539-634: without assessment variables an error is recorded
\* (552-555); else the questionnaire is stored, with or without validation
\* errors, or the request raises (630-632)
GenerateQuestionnaireNode ==
  /\ loc.node = "generate_questionnaire"
  /\ \E raised \in BOOLEAN, invalid \in BOOLEAN :
       FlowStep(IF state.assessment_variables # "some"
                  THEN [state EXCEPT !.error = "text"]
                ELSE IF raised THEN [state EXCEPT !.error = "text"]
                ELSE [state EXCEPT !.questionnaire = "some",
                                   !.error = IF invalid THEN "text" ELSE @],
                "analyze_questionnaire_impact")

\* src/nodes.py 903-1140: a null list of assessment variables becomes the
\* empty list (912-915); without variables or sections the snapshot is
\* returned (928-933); a clean pass clears the error (1136-1138), any other
\* records one; the edge after it reads modification_prompt
AnalyzeQuestionnaireImpactNode ==
  /\ loc.node = "analyze_questionnaire_impact"
  /\ \E clean \in BOOLEAN :
       \E s \in {IF state.assessment_variables = "null"
                   THEN [state EXCEPT !.assessment_variables = "empty"]
                 ELSE IF state.assessment_variables = "empty" \/ state.questionnaire = "null"
                   THEN state
                 ELSE [state EXCEPT !.error = IF clean THEN "null" ELSE "text"]} :
         FlowStep(s, route_after_impact(s))

\* modify_questionnaire is entered from analyze_questionnaire_impact with a
\* modification_prompt only; a run comes to analyze_questionnaire_impact
\* through generate_questionnaire, that is without one, and no node writes
\* one, so that the node runs in no run of the graph
ModifyQuestionnaireNeverDue == loc.node # "modify_questionnaire"

FlowNext ==
  \/ GenerateVariablesNode
  \/ AnalyzeDependenciesNode
  \/ ModifyVariablesIntelligentNode
  \/ GenerateQuestionnaireNode
  \/ AnalyzeQuestionnaireImpactNode

\* the graph runs a node whenever one is due
FlowSpec == FlowInit /\ [][FlowNext]_vars /\ WF_vars(FlowNext)

\* ------------------------------------------------------- the save endpoint
\* step_save_questionnaire (src/api.py 220-246) on the snapshot of a
\* request: a last call of analyze_questionnaire_impact, then
\* write_to_supabase unless an error is left.  The snapshot carries the
\* variables under the name the nodes read, assessment_variables, and no
\* computational variables.

\* a variable or question as the request carries it, with an id
WithId(item, id) == MapUpdate(item, [id |-> id])

SavedVariableLists ==
  {None, Some(<<>>), Some(<<Variable(VarA)>>),
   Some(<<WithId(Variable(VarA), <<"p", "_", "1">>)>>),
   Some(<<WithId(Variable(VarA), <<"p", "_", "1">>),
          WithId(Variable(VarGhost), <<"p", "_", "2">>)>>)}

\* requests.post for one item: a status code, or an exception
UpsertResponses == {"200", "201", "409", "raise"}

\* the responses to the items of one call: all created, but for one item
ResponseSeqs(n) ==
  {[i \in 1..n |-> "201"]} \cup
  {[i \in 1..n |-> IF i = k THEN r ELSE "201"] : k \in 1..n, r \in UpsertResponses}

\* item.get("id")
ItemId(item) == IF "id" \in DOMAIN item THEN item.id ELSE NoName

\* src/nodes.py 862-899: no request without an id; success is status 200 or
\* 201, an exception is caught
upsert_single_item(item, response) ==
  IF ItemId(item) = NoName THEN FALSE
  ELSE IF response = "raise" THEN FALSE
  ELSE response \in {"200", "201"}

\* lines 1191-1232: one entry per question, section by section, core
\* questions before conditional ones
RECURSIVE questions_to_supabase(_)
questions_to_supabase(secs) ==
  IF secs = <<>> THEN <<>>
  ELSE LET qs == SectionQuestions(Head(secs))
       IN [i \in DOMAIN qs |-> [id |-> qs[i].id, section_number |-> Head(secs).order,
                                question_var_name |-> qs[i].variable_name]]
          \o questions_to_supabase(Tail(secs))

\* line 1205: a null assessment_variables list of a question raises
\* TypeError while the entries are built, after the variables were upserted
WriteRaises(s) == QuestionLoopRaises(Sections(s))

\* the items in the order they are upserted, with their tables
ItemsToWrite(s) ==
  [i \in DOMAIN Avs(s) |-> [table |-> "asessment_variables", item |-> Avs(s)[i]]]
  \o (IF WriteRaises(s) THEN <<>>
      ELSE [i \in DOMAIN questions_to_supabase(Sections(s)) |->
              [table |-> "questions", item |-> questions_to_supabase(Sections(s))[i]]])

\* the upserts of one call and what each returned
Upserts(items, responses) ==
  [i \in DOMAIN items |->
     [table |-> items[i].table, id |-> ItemId(items[i].item),
      ok |-> upsert_single_item(items[i].item, responses[i])]]

\* lines 1161-1162: each variable written takes the project id of the snapshot
WithProjectIds(s) ==
  IF s.assessment_variables = None THEN s
  ELSE [s EXCEPT !.assessment_variables =
          Some([i \in DOMAIN Avs(s) |-> MapUpdate(Avs(s)[i], [project_id |-> s.project_id])])]

\* variant that records a failed upsert in the error field
write_error_Reported(error, upserts) ==
  IF \E i \in DOMAIN upserts : ~upserts[i].ok
    THEN ErrorAppend(error, "Error writing to Supabase")
  ELSE None

\* lines 1240-1243: the error field after the upserts
write_error(error, upserts) ==
  IF \E i \in DOMAIN upserts : ~upserts[i].ok THEN error ELSE None

\* src/nodes.py 1142-1246: the snapshot returned and the upserts made
write_to_supabase(s, responses) ==
  [state |-> [WithProjectIds(s) EXCEPT
                !.error = write_error(s.error, Upserts(ItemsToWrite(s), responses))],
   upserts |-> Upserts(ItemsToWrite(s), responses),
   raised |-> WriteRaises(s)]

\* bool(state.get("error"))
ErrorLeft(error) == error # None /\ error[1] # <<>>

\* variant that writes whatever the last pass left
save_status_Ungated(pass_ret, error) ==
  IF pass_ret = "raised" THEN 500 ELSE 200

\* src/api.py 229-246: the status of the response: 500 when the pass raises,
\* 400 when it leaves an error, else 200 after the write
save_status(pass_ret, error) ==
  IF pass_ret = "raised" THEN 500
  ELSE IF ErrorLeft(error) THEN 400
  ELSE 200

\* the last passes of analyze_questionnaire_impact on the snapshot st
FinalPasses(st) ==
  UNION {IF ~ReachesRequest(st, order)
           THEN {analyze_questionnaire_impact(st, order, NoResponse, <<>>)}
         ELSE UNION {{analyze_questionnaire_impact(st, order, resp, draws) :
                        draws \in DrawsFor(resp.added_questions, Sections(st))} :
                     resp \in RemediationAnswers} :
         order \in PlaceholderOrders(st)}

SaveInit ==
  /\ state \in [error : InitErrors, project_id : {Some(ProjectP)},
                assessment_variables : SavedVariableLists,
                questionnaire : InitQuestionnaires]
  /\ pre = state
  /\ ret = "ready"
  /\ loc = [op |-> "none"]
  /\ calls = 1

SaveLocals(pass, status, written, upserts) ==
  [op |-> "step_save_questionnaire", pass |-> pass.loc, pass_ret |-> pass.ret,
   pass_error |-> pass.state.error, status |-> status, written |-> written,
   upserts |-> upserts]

\* lines 229 and 243-245: the last pass raises and the request fails
SaveFails ==
  /\ ret = "ready"
  /\ \E pass \in FinalPasses(state) :
       /\ save_status(pass.ret, pass.state.error) = 500
       /\ state' = pass.state
       /\ loc' = SaveLocals(pass, 500, FALSE, <<>>)
  /\ pre' = state
  /\ ret' = "raised"
  /\ UNCHANGED calls

\* lines 231-235: the last pass leaves an error and the request is refused
SaveRefused ==
  /\ ret = "ready"
  /\ \E pass \in FinalPasses(state) :
       /\ save_status(pass.ret, pass.state.error) = 400
       /\ state' = pass.state
       /\ loc' = SaveLocals(pass, 400, FALSE, <<>>)
  /\ pre' = state
  /\ ret' = "raised"
  /\ UNCHANGED calls

\* lines 237-240: the snapshot is written and returned
SaveWrites ==
  /\ ret = "ready"
  /\ \E pass \in FinalPasses(state) :
       /\ save_status(pass.ret, pass.state.error) = 200
       /\ \E responses \in ResponseSeqs(Len(ItemsToWrite(pass.state))) :
            \E w \in {write_to_supabase(pass.state, responses)} :
              /\ ~w.raised
              /\ state' = w.state
              /\ loc' = SaveLocals(pass, 200, TRUE, w.upserts)
  /\ pre' = state
  /\ ret' = "returned"
  /\ UNCHANGED calls

\* lines 239 and 243-245: write_to_supabase raises and the request fails
SaveWriteRaises ==
  /\ ret = "ready"
  /\ \E pass \in FinalPasses(state) :
       /\ save_status(pass.ret, pass.state.error) = 200
       /\ \E responses \in ResponseSeqs(Len(ItemsToWrite(pass.state))) :
            \E w \in {write_to_supabase(pass.state, responses)} :
              /\ w.raised
              /\ state' = WithProjectIds(pass.state)
              /\ loc' = SaveLocals(pass, 500, TRUE, w.upserts)
  /\ pre' = state
  /\ ret' = "raised"
  /\ UNCHANGED calls

SaveNext ==
  \/ SaveFails
  \/ SaveRefused
  \/ SaveWrites
  \/ SaveWriteRaises

SaveSpec == SaveInit /\ [][SaveNext]_vars

\* ----------------------------------------------------------- properties
\* pre is the snapshot the call was given, state the snapshot it left, loc
\* what the call computed.

\* C1: a call on a snapshot in which every known variable is listed by a
\* question, every listed name is known and no calculation formula names an
\* absent q_ variable returns with the variable list, the sections and the
\* calculation map as they were and with error = null.
C1_CleanPassIsNoOp ==
  LET names == {q.variable_name : q \in Range(AllQuestions(Sections(pre)))}
      listed == UNION {Range(GetOrEmpty(q.assessment_variables)) :
                         q \in Range(AllQuestions(Sections(pre)))}
      known == {Avs(pre)[i].var_name : i \in DOMAIN Avs(pre)}
      Dangling(r) ==
        /\ CalcMap(pre)[r] # None
        /\ \E t \in Range(CalcMap(pre)[r][1]) :
             Len(t) > 2 /\ t[1] = "q" /\ t[2] = "_" /\ t \notin names
  IN (ret # "ready" /\ listed = known /\ \A r \in DOMAIN CalcMap(pre) : ~Dangling(r))
       => /\ ret = "returned"
          /\ Avs(state) = Avs(pre)
          /\ Sections(state) = Sections(pre)
          /\ CalcMap(state) = CalcMap(pre)
          /\ state.error = None

\* C2: after a call, every var_name that a question lists and the known list
\* lacks has exactly one entry in the returned variable list, a placeholder
\* named by the title-cased var_name with spaces for underscores and with a
\* null formula, whatever the size of the known list.
C2_PlaceholderCreated ==
  LET listed == UNION {Range(GetOrEmpty(q.assessment_variables)) :
                         q \in Range(AllQuestions(Sections(pre)))}
      known == {Avs(pre)[i].var_name : i \in DOMAIN Avs(pre)}
  IN ret # "ready" =>
       \A v \in listed \ known :
         /\ ret = "returned"
         /\ Cardinality({i \in DOMAIN Avs(state) : Avs(state)[i].var_name = v}) = 1
         /\ \A i \in DOMAIN Avs(state) :
              Avs(state)[i].var_name = v =>
                /\ Avs(state)[i].name = TitleStr(ReplaceChar(v, "_", " "))
                /\ Avs(state)[i].formula = "null"

\* C3: every known variable that no question lists is in vars_to_address and
\* the call enters NeedsRemediation, recording a warning and issuing a
\* request; vars_to_address is the union of the uncovered, the problematic
\* and the referenced-but-missing names.
C3_UncoveredDetected ==
  LET listed == UNION {Range(GetOrEmpty(q.assessment_variables)) :
                         q \in Range(AllQuestions(Sections(pre)))}
  IN ret # "ready" =>
       /\ \A i \in DOMAIN Avs(pre) :
            Avs(pre)[i].var_name \notin listed =>
              /\ loc.scanned
              /\ Avs(pre)[i].var_name \in loc.vars_to_address
              /\ "NeedsRemediation" \in Range(loc.trace)
              /\ loc.requests = 1
              /\ state.error # None
       /\ loc.scanned =>
            loc.vars_to_address =
              Range(loc.uncovered) \cup Range(loc.problematic) \cup loc.missing

C5_FailureKeepsPartialWrites ==
  LET resp == loc.response
      items == resp.added_questions
      NoList == loc.case # 0 /\ Sections(pre)[loc.index].core_questions.k # "list"
      Bad == {i \in DOMAIN items : ~items[i].wellformed}
      k == IF resp.kind = "raise" \/ NoList THEN 0
           ELSE (CHOOSE b \in Bad : \A c \in Bad : b <= c) - 1
      failed == /\ loc.requests = 1
                /\ \/ resp.kind = "raise"
                   \/ resp.kind = "dict" /\ items # <<>> /\ (NoList \/ Bad # {})
  IN (ret # "ready" /\ failed) =>
       /\ ret = "returned"
       /\ state.error # None
       /\ state.error[1][Len(state.error[1])] =
            "Error during questionnaire impact remediation"
       /\ CalcMap(state) = CalcMap(pre)
       /\ loc.appended = k
       /\ Len(Sections(state)) = Len(Sections(pre))
       /\ \A i \in DOMAIN Sections(pre) :
            IF i = loc.index /\ k > 0
              THEN LET old == Sections(pre)[i].core_questions.v
                       new == Sections(state)[i].core_questions.v
                   IN /\ Len(new) = Len(old) + k
                      /\ SubSeq(new, 1, Len(old)) = old
                      /\ Sections(state)[i].conditional_questions =
                           Sections(pre)[i].conditional_questions
              ELSE Sections(state)[i] = Sections(pre)[i]

C5_FailedAfterAppending ==
  /\ ret = "returned"
  /\ loc.response.kind = "dict"
  /\ loc.appended >= 1
  /\ loc.appended < Len(loc.response.added_questions)
  /\ CalcMap(pre) # loc.response.updated_assessment_variable_calculation.v
  /\ loc.response.updated_assessment_variable_calculation.v # EmptyMap

\* C6: when what the request returns is not a dict, the call returns with the
\* format error recorded, no question appended, no section created and the
\* calculation map as it was.
C6_MalformedResponseIsFatal ==
  (ret # "ready" /\ loc.requests = 1 /\ loc.response.kind = "notdict") =>
    /\ ret = "returned"
    /\ state.error # None
    /\ state.error[1][Len(state.error[1])] = "LLM remediation output format error"
    /\ Sections(state) = Sections(pre)
    /\ CalcMap(state) = CalcMap(pre)
    /\ loc.appended = 0

C6_ListReturned ==
  /\ ret = "returned"
  /\ loc.response.kind = "notdict"
  /\ loc.response.added_questions # <<>>
  /\ \E i \in DOMAIN Sections(pre) : Sections(pre)[i].core_questions.k = "list"

\* C7: a call whose scan leaves vars_to_address non-empty issues exactly one
\* remediation request, scans once, and returns a non-null error, which ends
\* with the warning of the attempt when the response was applied; a call
\* whose scan leaves it empty issues no request.
C7_SinglePass ==
  (ret = "returned" /\ loc.scanned) =>
    IF loc.vars_to_address # {}
      THEN /\ loc.requests = 1
           /\ Cardinality({i \in DOMAIN loc.trace : loc.trace[i] = "Scanning"}) = 1
           /\ loc.trace[Len(loc.trace)] = "Remediating"
           /\ state.error # None
           /\ (loc.response.kind = "dict"
                 /\ loc.appended = Len(loc.response.added_questions))
                => state.error[1][Len(state.error[1])] =
                     "Warning: attempt was made to add questions"
      ELSE /\ loc.requests = 0
           /\ loc.trace = <<"Scanning", "Clean">>

C7_RemediatedOnce ==
  /\ ret = "returned"
  /\ loc.requests = 1
  /\ loc.response.kind = "dict"
  /\ loc.appended >= 1
  /\ loc.missing # {}
  /\ loc.uncovered = <<>>

\* C8: the added questions go to the first section that is mandatory and has
\* a core-questions list, else to the first section, else to a synthesized
\* section; the third case is the one taken when the snapshot has variables
\* to cover and no section.
C8_TargetSelection ==
  LET secs == Sections(pre)
      Mandatory == {i \in DOMAIN secs :
                      secs[i].is_mandatory /\ secs[i].core_questions.k = "list"}
      expected == IF Mandatory # {} THEN 1 ELSE IF secs # <<>> THEN 2 ELSE 3
      adds == loc.response.kind = "dict" /\ loc.response.added_questions # <<>>
  IN ret # "ready" =>
       /\ adds =>
            /\ loc.case = expected
            /\ expected = 1 => loc.index \in Mandatory /\ \A j \in Mandatory : loc.index <= j
            /\ expected = 2 => loc.index = 1
            /\ expected = 3 =>
                 /\ Sections(state)[loc.index].title = "Remediation Questions"
                 /\ Sections(state)[loc.index].order = 1
       /\ (Avs(pre) # <<>> /\ secs = <<>>) => loc.requests = 1

\* C9: when the scan completes, the flagged keys are exactly the keys of the
\* calculation map that are var_names of the returned variable list (the
\* placeholders of this call included) and whose formula holds a q_ token
\* that names no question of the questionnaire; no key is flagged twice.
C9_ProblematicCalculations ==
  (ret = "returned" /\ loc.scanned) =>
    LET names == {q.variable_name : q \in Range(AllQuestions(Sections(pre)))}
        known == {Avs(state)[i].var_name : i \in DOMAIN Avs(state)}
        QToken(t) == Len(t) > 2 /\ t[1] = "q" /\ t[2] = "_"
    IN /\ Range(loc.problematic) =
            {r \in DOMAIN CalcMap(pre) :
               /\ r \in known
               /\ CalcMap(pre)[r] # None
               /\ \E t \in Range(CalcMap(pre)[r][1]) : QToken(t) /\ t \notin names}
       /\ \A i, j \in DOMAIN loc.problematic :
            loc.problematic[i] = loc.problematic[j] => i = j

C9_PlaceholderFlagged ==
  /\ ret = "returned"
  /\ loc.scanned
  /\ \E r \in Range(loc.problematic) :
       r \notin {Avs(pre)[i].var_name : i \in DOMAIN Avs(pre)}

\* C10: the Scanning phase completes for every snapshot: no call leaves the
\* node with an exception.
C10_ScanningNeverFails == ret # "raised"

\* the retry loop of the helper was entered by the call that returned
RefineLoopEntered ==
  /\ ret = "returned"
  /\ ~(state.expression_type = "triggering_criteria" /\ state.is_mandatory_flag)
  /\ ~IsUsableExpression(state.current_expression)

GenerateReturned == ret = "returned" /\ loc.op = "generate"
ModifyReturned == ret = "returned" /\ loc.op = "modify"

\* C12: when modify_variables_llm has applied the modifications, the error
\* field of the snapshot it returns ends with one diagnostic for each formula
\* whose refinement gave the failure marker.
C12_DiagnosticsKept ==
  (ModifyReturned /\ loc.failed = "none") =>
    EndsWith(ErrorMessages(state.error), loc.diagnostics)

\* no two variables of the list share a var_name
VarNamesDistinct(vars_list) ==
  \A i, j \in DOMAIN vars_list : vars_list[i].var_name = vars_list[j].var_name => i = j

\* C13: in every snapshot of the variables workflow no two assessment
\* variables share a var_name and no two computational variables do.
C13_VarNamesUnique ==
  /\ VarNamesDistinct(state.assessment_variables)
  /\ VarNamesDistinct(state.computational_variables)

\* id is project_id, an underscore and a base id that does not itself begin
\* with the project prefix
PrefixedOnce(id, project_id) ==
  LET prefix == project_id \o <<"_">>
      HasPrefix(t) == Len(t) > Len(prefix) /\ SubSeq(t, 1, Len(prefix)) = prefix
  IN HasPrefix(id) /\ ~HasPrefix(SubSeq(id, Len(prefix) + 1, Len(id)))

\* C17: with a project_id, every variable of the snapshot has the id
\* project_id_base with the prefix applied once, and the ids of the snapshot
\* are pairwise distinct.
C17_IdsPrefixedOnce ==
  state.project_id # None =>
    LET all == state.assessment_variables \o state.computational_variables
    IN /\ \A i \in DOMAIN all : PrefixedOnce(all[i].id, state.project_id[1])
       /\ \A i, j \in DOMAIN all : all[i].id = all[j].id => i = j

\* C18: when the request for assessment variables raises, generate_variables
\* appends an error, sends no request for computational variables and leaves
\* both lists as they were; when the request for computational variables
\* raises, the assessment variables generated or held before it are in the
\* returned snapshot and the error field is not null.
C18_GenerationFailureReturnsEarly ==
  GenerateReturned =>
    /\ loc.failed = "assessment" =>
         /\ state.error # None
         /\ Len(ErrorMessages(state.error)) = Len(ErrorMessages(pre.error)) + 1
         /\ loc.requests = <<"assessment">>
         /\ state.assessment_variables = pre.assessment_variables
         /\ state.computational_variables = pre.computational_variables
    /\ loc.failed = "computational" =>
         /\ state.error # None
         /\ state.assessment_variables # <<>>
         /\ pre.assessment_variables # <<>> =>
              state.assessment_variables = pre.assessment_variables
         /\ pre.assessment_variables = <<>> => loc.requests = <<"assessment", "computational">>
         /\ \A i \in DOMAIN state.assessment_variables :
              state.assessment_variables[i].var_name # NoName
         /\ state.computational_variables = pre.computational_variables

\* the second request raised after the first one had generated variables
C18_FailedAfterGenerating ==
  /\ GenerateReturned
  /\ loc.failed = "computational"
  /\ pre.assessment_variables = <<>>
  /\ pre.error = None
  /\ Len(state.assessment_variables) = 2

\* the variable names of the questions of a snapshot, in the order of the
\* sections
QuestionNames(s) ==
  [i \in DOMAIN AllQuestions(Sections(s)) |-> AllQuestions(Sections(s))[i].variable_name]

QuestionNamesDistinct(s) ==
  \A i, j \in DOMAIN QuestionNames(s) :
    i # j => QuestionNames(s)[i] # QuestionNames(s)[j]

\* the last call was one of the given node
LastCall(op) == IF Analyzed THEN op = "analyze_questionnaire_impact" ELSE loc.op = op

\* the name a question appended by the remediation has when no suffix is put
\* behind it
IsUnsuffixedName(name, item) ==
  IF item.variable_name = NoName THEN \E h \in Hex8 : name = <<"q", "_">> \o h
  ELSE name = NormalizeVariableName(item.variable_name)

\* the questions the last call of analyze_questionnaire_impact appended
AppendedQuestions ==
  IF loc.appended = 0 THEN <<>>
  ELSE LET core == Sections(state)[loc.index].core_questions.v
       IN SubSeq(core, Len(core) - loc.appended + 1, Len(core))

\* every suffix the last call of analyze_questionnaire_impact put behind a
\* name made a name no question had
RemediationSuffixesFresh ==
  \A k \in DOMAIN AppendedQuestions :
    LET name == AppendedQuestions[k].variable_name
    IN ~IsUnsuffixedName(name, loc.response.added_questions[k])
         => /\ name \notin Range(QuestionNames(pre))
            /\ \A j \in 1..(k - 1) : AppendedQuestions[j].variable_name # name

\* every suffix the last call generated was fresh
SuffixesFresh == IF Analyzed THEN RemediationSuffixesFresh ELSE loc.fresh

SectionOrders(s) == [i \in DOMAIN Sections(s) |-> Sections(s)[i].order]

OrdersDistinct(s) ==
  \A i, j \in DOMAIN SectionOrders(s) : i # j => SectionOrders(s)[i] # SectionOrders(s)[j]

\* the last call was one of modify_questionnaire_llm that applied the
\* modifications the service answered
ModificationsApplied ==
  /\ LastCall("modify_questionnaire_llm")
  /\ loc.answer.kind = "dict"

\* the modifications of the last call removed a section
SectionRemoved ==
  \E i \in DOMAIN SectionOrders(pre) :
    SectionOrders(pre)[i] \in Range(loc.answer.v.removed_section_orders)

\* C15: after a call of modify_questionnaire_llm on a questionnaire with
\* pairwise distinct section orders the section orders are pairwise distinct,
\* and when the call removed a section they are exactly 1..n, whatever
\* section updates and additions the modifications hold
C15_SectionOrders ==
  (ModificationsApplied /\ OrdersDistinct(pre))
    => /\ OrdersDistinct(state)
       /\ SectionRemoved
            => Range(SectionOrders(state)) = 1..Len(SectionOrders(state))

\* the last call stored a questionnaire it generated or modified
QuestionnaireStored ==
  /\ ~Analyzed
  /\ loc.answer.kind = "dict"
  /\ ~loc.raised

\* criteria that are no expression: empty, or the failure marker
IsNoCriteria(c) == c \in {"", FailureMarker}

\* C16: in a questionnaire generate_questionnaire or modify_questionnaire_llm
\* stored, a mandatory section has null triggering criteria and an optional
\* one has not, a core question has null triggering criteria and is not
\* conditional, a conditional question has triggering criteria that are not
\* null, and when an optional section or a conditional question is left
\* without usable criteria the call recorded a validation error in the error
\* field
C16_TriggeringCriteria ==
  QuestionnaireStored =>
    \A i \in DOMAIN Sections(state) :
      LET sec == Sections(state)[i] IN
      /\ sec.is_mandatory => sec.triggering_criteria = "null"
      /\ ~sec.is_mandatory => sec.triggering_criteria # "null"
      /\ \A q \in Range(sec.core_questions.v) :
           q.triggering_criteria = "null" /\ ~q.is_conditional
      /\ \A q \in Range(sec.conditional_questions) : q.triggering_criteria # "null"
      /\ (\/ ~sec.is_mandatory /\ IsNoCriteria(sec.triggering_criteria)
          \/ \E q \in Range(sec.conditional_questions) :
               IsNoCriteria(q.triggering_criteria))
           => (loc.errors # <<>> /\ state.error # None)

Levels == {"critical", "moderate", "low"}

\* the last call was one of determine_impact_level
Classified == loc.op = "determine_impact_level"

\* C19: determine_impact_level returns critical, moderate or low for every
\* set of dependencies and every formula: critical for no dependency and a
\* formula that is not blank, low for no dependency and a blank formula,
\* critical for one dependency and a formula with a control-flow keyword
\* (return, if, while, for), moderate for one dependency and no such
\* keyword, moderate for two dependencies or more
C19_ImpactPolicy ==
  Classified =>
    /\ loc.impact_level \in Levels
    /\ (loc.dependencies = {} /\ ~IsBlank(loc.formula)) => loc.impact_level = "critical"
    /\ (loc.dependencies = {} /\ IsBlank(loc.formula)) => loc.impact_level = "low"
    /\ (Cardinality(loc.dependencies) = 1 /\ HasControlFlow(loc.formula))
         => loc.impact_level = "critical"
    /\ (Cardinality(loc.dependencies) = 1 /\ ~HasControlFlow(loc.formula))
         => loc.impact_level = "moderate"
    /\ Cardinality(loc.dependencies) >= 2 => loc.impact_level = "moderate"

\* the classifier was given one dependency and a_plus_one, which holds no
\* keyword, and answered moderate
C19_SingleWithoutKeyword ==
  /\ Classified
  /\ loc.dependencies = {RawA}
  /\ loc.formula = FormulaPlusOne
  /\ loc.impact_level = "moderate"

\* the last call returned a dependency graph
GraphReturned == loc.op = "analyze_dependencies" /\ loc.status = 200

\* the union of the depends_on sets of a graph
AllDependencies(graph) ==
  UNION {graph.decision_variables[i].depends_on : i \in DOMAIN graph.decision_variables}

\* s is a subsequence of t that keeps the order of t
IsOrderedSelection(s, t, Keep(_)) == s = SelectSeq(t, Keep)

\* C20: the graph returned for any raw indicators and decision variables has
\* orphaned_variables equal to the raw-indicator var_names that are in no
\* depends_on set, in the order of the raw_indicators input, and the
\* orphaned names and the union of the depends_on sets partition the names
\* of the raw indicators
C20_OrphanDetection ==
  GraphReturned =>
    LET graph == loc.dependency_graph
        names == IndicatorNames(state.raw_indicators)
        NotDependedOn(n) == n \notin AllDependencies(graph)
    IN /\ IsOrderedSelection(graph.impact_analysis.orphaned_variables, names, NotDependedOn)
       /\ Range(graph.impact_analysis.orphaned_variables) \cup AllDependencies(graph)
            = Range(names)
       /\ Range(graph.impact_analysis.orphaned_variables) \cap AllDependencies(graph) = {}

\* the only formula of the request uses a and not b: b alone is orphaned
C20_DroppedIndicatorOrphaned ==
  /\ GraphReturned
  /\ IndicatorNames(state.raw_indicators) = <<RawA, RawB>>
  /\ Len(state.decision_variables) = 1
  /\ state.decision_variables[1].formula = FormulaDouble
  /\ loc.dependency_graph.impact_analysis.orphaned_variables = <<RawB>>

\* C21: a decision variable is in breaking_changes exactly when its formula
\* is not blank and its depends_on set is empty; breaking_changes and
\* required_updates share no name, and a decision variable with an empty
\* formula is never in breaking_changes
C21_BreakingChanges ==
  GraphReturned =>
    LET graph == loc.dependency_graph
        breaking == Range(graph.impact_analysis.breaking_changes)
    IN /\ \A i \in DOMAIN state.decision_variables :
            /\ state.decision_variables[i].var_name \in breaking
                 <=> /\ ~IsBlank(state.decision_variables[i].formula)
                     /\ graph.decision_variables[i].depends_on = {}
            /\ state.decision_variables[i].formula = <<>>
                 => state.decision_variables[i].var_name \notin breaking
       /\ breaking \cap Range(graph.impact_analysis.required_updates) = {}

\* "return 5;" resolves to no raw indicator and is breaking, next to a
\* decision variable with one dependency that needs an update
C21_UnresolvedFormulaBreaks ==
  /\ GraphReturned
  /\ IndicatorNames(state.raw_indicators) = <<RawA>>
  /\ Len(state.decision_variables) = 2
  /\ state.decision_variables[1].formula = FormulaConstant
  /\ state.decision_variables[2].formula = FormulaDouble
  /\ loc.dependency_graph.impact_analysis.breaking_changes = <<state.decision_variables[1].var_name>>
  /\ loc.dependency_graph.impact_analysis.required_updates = <<state.decision_variables[2].var_name>>

\* the last call was one of parse_formula_dependencies
Scanned == loc.op = "parse_formula_dependencies"

\* t stands in e between two word boundaries
OccursAsToken(e, t) ==
  \E i \in 1..(Len(e) - Len(t) + 1) :
    /\ SubSeq(e, i, i + Len(t) - 1) = t
    /\ i = 1 \/ ~IsIdentChar(e[i - 1])
    /\ i + Len(t) - 1 = Len(e) \/ ~IsIdentChar(e[i + Len(t)])

\* C22: the scanner returns a subset of the names it is given; a name is
\* returned only if it stands in the expression as a whole identifier, or
\* as the suffix of an identifier q_<suffix>; nothing is returned for a
\* blank expression or for no names; so every depends_on of a dependency
\* graph is a subset of the names of the raw indicators of the request
C22_ScannerSound ==
  /\ Scanned =>
       /\ loc.dependencies \subseteq loc.raw_indicator_list
       /\ \A n \in loc.dependencies :
            OccursAsToken(loc.formula, n) \/ OccursAsToken(loc.formula, <<"q", "_">> \o n)
       /\ (IsBlank(loc.formula) \/ loc.raw_indicator_list = {}) => loc.dependencies = {}
  /\ GraphReturned =>
       \A i \in DOMAIN loc.dependency_graph.decision_variables :
         loc.dependency_graph.decision_variables[i].depends_on
           \subseteq Range(IndicatorNames(state.raw_indicators))

\* in "q_b + ab" the scanner finds b behind q_ and does not take ab for a
C22_WholeTokensOnly ==
  /\ Scanned
  /\ loc.formula = FormulaQuestion
  /\ loc.raw_indicator_list = {RawA, RawB}
  /\ loc.dependencies = {RawB}

FormulaNames(formula) == IF formula = FormulaOfA THEN {<<"a">>} ELSE {}

\* the var_names of the assessment variables the last call removed
RemovedNames ==
  {pre.assessment_variables[i].var_name :
     i \in {i \in DOMAIN pre.assessment_variables :
              \A j \in DOMAIN state.assessment_variables :
                ~EndsWith(state.assessment_variables[j].id, pre.assessment_variables[i].id)}}

\* the computational variable had this very formula before the call
FormulaKept(cv) ==
  \E i \in DOMAIN pre.computational_variables :
    /\ pre.computational_variables[i].id = cv.id
    /\ pre.computational_variables[i].formula = cv.formula

\* C24: after modify_variables_llm has applied a modification that removes
\* an assessment variable, every computational variable whose formula still
\* refers to the removed var_name is flagged by a diagnostic in the error
\* field or has a formula other than the one it had before the call
C24_DanglingFormulaFlagged ==
  (loc.op = "modify" /\ loc.failed = "none" /\ loc.requests # <<>>) =>
    \A i \in DOMAIN state.computational_variables :
      (FormulaNames(state.computational_variables[i].formula) \cap RemovedNames # {})
        => \/ state.error # None
           \/ ~FormulaKept(state.computational_variables[i])

\* the last call was one of step_save_questionnaire
Saved == loc.op = "step_save_questionnaire"

C26_WriteFailureReported ==
  (Saved /\ loc.written /\ loc.status = 200) =>
    IF \E i \in DOMAIN loc.upserts : ~loc.upserts[i].ok
      THEN ErrorLeft(state.error)
    ELSE state.error = None

\* the var_names for which the last pass of analyze_questionnaire_impact
\* appended an entry to the assessment variables
Synthesized ==
  IF ret = "ready" THEN {} ELSE VarNames(Avs(state)) \ VarNames(Avs(pre))

\* C27: a pass of analyze_questionnaire_impact that synthesizes a placeholder
\* has a non-empty vars_to_address, goes on to Remediating and returns with
\* a non-null error; it never ends Clean, and a scan of the returned snapshot
\* finds none of the synthesized var_names missing again.
C27_PlaceholderExcludesClean ==
  Synthesized # {} =>
    /\ ret = "returned"
    /\ loc.vars_to_address # {}
    /\ "Remediating" \in Range(loc.trace)
    /\ "Clean" \notin Range(loc.trace)
    /\ state.error # None
    /\ referenced_but_missing_avs(Sections(state), Avs(state)) \cap Synthesized = {}

\* apart from the passes that raise while scanning: a pass that returns
\* after synthesizing a placeholder was flagged and remediated
ReturnedPlaceholderPassRemediated ==
  Synthesized # {} /\ ret = "returned" =>
    /\ loc.vars_to_address # {}
    /\ "Remediating" \in Range(loc.trace)
    /\ "Clean" \notin Range(loc.trace)
    /\ state.error # None
    /\ referenced_but_missing_avs(Sections(state), Avs(state)) \cap Synthesized = {}

\* the variable names the questions of the generated answer carried, in the
\* order of the questions
GeneratedNames ==
  LET qs == AllQuestions(loc.answer.v.sections)
  IN [i \in DOMAIN qs |-> qs[i].variable_name]

\* the last call was one of generate_questionnaire that stored the answer of
\* the service
GeneratedStored ==
  /\ ret = "returned"
  /\ LastCall("generate_questionnaire")
  /\ loc.answer.kind = "dict"
  /\ ~loc.raised

\* the question at position i of the answer has a name in normal form that
\* is the name of no other question of the answer, normalized or not
NameCollidesWithNone(i) ==
  /\ GeneratedNames[i] # NoName
  /\ NormalizeVariableName(GeneratedNames[i]) = GeneratedNames[i]
  /\ \A j \in DOMAIN GeneratedNames :
       j # i => /\ GeneratedNames[j] # GeneratedNames[i]
                /\ NormalizeVariableName(GeneratedNames[j]) # GeneratedNames[i]

\* C28: when generate_questionnaire stores a generated questionnaire, a
\* question whose normalized variable_name is the name of no other question
\* keeps that variable_name; only colliding questions get a suffix.
C28_SuffixOnlyOnCollision ==
  GeneratedStored =>
    \A i \in DOMAIN GeneratedNames :
      NameCollidesWithNone(i) => QuestionNames(state)[i] = GeneratedNames[i]

\* the last call of modify_variables_llm applied an answer that removes
\* variables and neither updates nor adds any
RemovalsApplied ==
  /\ ModifyReturned
  /\ loc.modifications.kind = "dict"
  /\ loc.modifications.v.updated_assessment_variables = <<>>
  /\ loc.modifications.v.added_assessment_variables = <<>>
  /\ loc.modifications.v.updated_computational_variables = <<>>
  /\ loc.modifications.v.added_computational_variables = <<>>

\* the removal list names the variable by its id or by its id without the
\* prefix of the project
NamedIn(var, removed_ids, project_id) ==
  \E i \in DOMAIN removed_ids :
    \/ removed_ids[i] = var.id
    \/ /\ project_id # None
       /\ project_id[1] \o <<"_">> \o removed_ids[i] = var.id

\* of the variables of before, those of after lack exactly the named ones
RemovedExactly(before, after, removed_ids, project_id) ==
  \A i \in DOMAIN before :
    (\A j \in DOMAIN after : after[j].id # before[i].id)
      <=> NamedIn(before[i], removed_ids, project_id)

\* C29: after modify_variables_llm applied removals, a variable is absent
\* from the returned list if and only if the removal list named its id, as
\* base id or with the project prefix, underscores in the base id
\* notwithstanding.
C29_RemovalExact ==
  RemovalsApplied =>
    /\ RemovedExactly(pre.assessment_variables, state.assessment_variables,
                      loc.modifications.v.removed_assessment_variable_ids, pre.project_id)
    /\ RemovedExactly(pre.computational_variables, state.computational_variables,
                      loc.modifications.v.removed_computational_variable_ids,
                      pre.project_id)

\* the section at index i of the questionnaire before the last call is not
\* removed by the modifications of that call
SectionSurvives(i) ==
  Sections(pre)[i].order \notin Range(loc.answer.v.removed_section_orders)

\* the index, after the call, of the section that was at index i before it:
\* without removals the list keeps its order, with removals the remaining
\* sections are sorted by their order
IndexAfter(i) ==
  IF loc.answer.v.removed_section_orders = <<>> THEN i
  ELSE Cardinality({j \in DOMAIN Sections(pre) :
                      SectionSurvives(j) /\ Sections(pre)[j].order <= Sections(pre)[i].order})

\* the section that was at index i carries the title of every update
\* addressed to its order
UpdateReached(i) ==
  \A k \in DOMAIN loc.answer.v.updated_sections :
    LET u == loc.answer.v.updated_sections[k]
    IN (u.order = Sections(pre)[i].order /\ "title" \in DOMAIN u)
         => /\ IndexAfter(i) \in DOMAIN Sections(state)
            /\ Sections(state)[IndexAfter(i)].title = u.title

\* the section that was at index i gained a question when an addition was
\* addressed to its order and no question was removed
AdditionReached(i) ==
  (/\ loc.answer.v.removed_question_variable_names = <<>>
   /\ \E k \in DOMAIN loc.answer.v.added_questions :
        loc.answer.v.added_questions[k].section_order = Sections(pre)[i].order)
    => /\ IndexAfter(i) \in DOMAIN Sections(state)
       /\ Len(SectionQuestions(Sections(state)[IndexAfter(i)]))
            > Len(SectionQuestions(Sections(pre)[i]))

\* C30: in modify_questionnaire_llm a section update or a question
\* addition addressed to order k reaches the section that carried order k
\* in the questionnaire the call was given, also when the same modifications
\* remove other sections.
C30_SectionAddressingStable ==
  (/\ ModificationsApplied
   /\ ~loc.raised
   /\ OrdersDistinct(pre)
   /\ loc.answer.v.added_sections = <<>>)
    => \A i \in DOMAIN Sections(pre) :
         SectionSurvives(i) => UpdateReached(i) /\ AdditionReached(i)

\* without section removals every update and addition reaches the section
\* it addresses
AddressingStableWithoutRemovals ==
  (ModificationsApplied /\ loc.answer.v.removed_section_orders = <<>>)
    => C30_SectionAddressingStable

====
